---- MODULE Spec2Model ----
(***************************************************************************)
(* A model of the Truce adjudicator (apps/adjudicator/truce_adjudicator):  *)
(* the verification endpoint with its deterministic cache, the evidence    *)
(* adding operations of a claim, the panel orchestrator, the panel         *)
(* aggregator and the session-scoped progress/cancellation channel.        *)
(*                                                                         *)
(* Conventions.  uuid4() is a fresh value: ids are drawn from counters.    *)
(* SHA-256 is taken to be injective: a digest is modelled by the material  *)
(* that is hashed.  datetimes are small naturals, None is NoTime.  Strings *)
(* that the code transforms (URLs, titles, snippets, claim text) are drawn *)
(* from small universes on which the transformation is tabulated.          *)
(* Confidences are exact rationals written in units of 1/ConfOne.          *)
(***************************************************************************)
EXTENDS Integers, Sequences, FiniteSets, TLC

VARIABLES
    \* ---- claims_db[slug] of the one claim under verification (main.py:60)
    evidence,           \* claim.evidence: sequence of Evidence records
    model_assessments,  \* claim.model_assessments
    panel_results,      \* claim.panel_results
    cache,              \* verification._cache: cache key -> VerificationRecord
    nextId,             \* next fresh Evidence id (uuid4)
    nextVid,            \* next fresh VerificationRecord id (uuid4)
    nOps,               \* number of endpoint calls made so far
    \* ---- observation of the last operation and history for the properties
    last,               \* what the last endpoint call did and returned
    fresh,              \* inputs -> id returned by the last verify of these
                        \*   inputs since which the evidence list is unchanged
    newSince,           \* ids of Evidence added by other operations since the
                        \*   previous verify call
    returned,           \* every verification_id returned so far
    \* ---- aggregate_panel as a function of its argument
    agg_models,         \* the list of PanelModelVerdict handed to it
    agg_summary,        \* the PanelSummary it returned (NoSummary before)
    \* ---- one session of POST /claims/create-async (main.py:506-671)
    progress_streams,   \* session id -> queue of the stages emitted (main.py:65)
    cancelled_sessions, \* main.py:66
    task,               \* where the background task of the session is
    research,           \* what its researchers returned, once they have
    replies,            \* what the providers have answered so far
    subscriber,         \* the consumer of the session's event stream
    sent,               \* stage of the last event sent to the client
    cancel_at,          \* where the task was when a cancel was first accepted
    nCancels,           \* cancel requests accepted so far
    cancel_reply,       \* the answer to the last cancel request
    \* ---- ExplorerAgent._enforce_domain_diversity as a function
    div_in,             \* the sources, target_count and domain_share
    div_out,            \* the sources it selected (NotRun before)
    \* ---- the verification cache with the objects its records refer to
    heap,               \* object id -> the list or TimeWindow object there
    rec_cache,          \* _cache: key -> the stored record (verification.py:18)
    held,               \* the record objects the callers hold
    expected,           \* key -> the content of the record stored under it
    got,                \* key and content of the last record a get returned,
                        \*   and the content stored under the key
    nCacheOps,          \* cache operations and mutations so far
    \* ---- one agentic panel run, its researchers as concurrent tasks
    ag_phase,           \* where run_agentic_panel_evaluation is
    ag_research,        \* researcher -> running, or how it completed
    ag_pool,            \* SharedEvidencePool.evidence_pool
    ag_running,         \* the models whose adapter.evaluate is in progress
    ag_started,         \* the models whose adapter.evaluate has started, in
                        \*   the order of the starts
    ag_verdicts,        \* panel_models
    \* ---- one RateLimiter and the tasks that call acquire
    rl_pc,              \* caller -> where its acquire call is
    rl_calls,           \* self.calls, each as the time elapsed since it
    rl_holds,           \* the callers with a frame inside "async with
                        \*   self._lock"
    rl_waiters,         \* the callers waiting for self._lock, first come
                        \*   first
    rl_sleep,           \* caller -> what is left of its asyncio.sleep
    \* ---- reconcile_complementary_verdicts as a function
    rec_in,             \* the two claim texts and the two summaries
    rec_out,            \* the pair of summaries it returned (NotRun before)
    \* ---- the pure functions that are specified on their own, one per specification
    fn_in,              \* the arguments
    fn_out,             \* what the function returned (NotRun before)
    \* ---- one SharedEvidencePool and the calls of its add_evidence
    sp_pool,            \* self.evidence_pool
    sp_hashes,          \* self.source_hashes
    sp_last,            \* the last call: its list, the pool before it, what it returned
    sp_added,           \* the lists handed to the calls so far
    nAdds,              \* calls so far
    \* ---- ExplorerAgent.gather_sources with a session: its calls of search_web
    sw_provider,        \* whether ExplorerToolset.search_api is configured
    sw_pc,              \* where gather_sources is
    sw_calls,           \* the search_web calls that have returned
    sw_returned,        \* what each of them returned
    sw_emitted,         \* the stages search_web emitted
    sw_lost,            \* the stages emitted when the session had no stream
    \* ---- claims_db with several claims: the panel history of each
    ph_results,         \* claim -> claim.panel_results, for the claims in claims_db
    ph_runs,            \* claim -> panel results appended to it so far
    \* ---- AgenticResearcher.conduct_research, one researcher
    cr_max,             \* max_search_turns
    cr_pc,              \* where conduct_research stands
    cr_turn,            \* the loop variable turn
    cr_collected,       \* self.collected_sources
    cr_log,             \* self.research_log
    cr_started,         \* the turns started so far, in order
    cr_outcomes,        \* what the tool call of each finished turn gave
    cr_returned,        \* what conduct_research returned
    \* ---- verify_claim, requests in flight at the same time
    vq_pc,              \* request -> where its handler stands
    vq_started,         \* request -> what the handler computed before the gather
    vq_result,          \* request -> what the handler returned and persisted
    \* ---- run_agentic_panel_with_progress, one request
    ap_task,            \* where the panel task stands
    ap_queue,           \* progress_streams[session_id] of the request
    ap_emitted,         \* the events the panel task emitted, in order
    ap_pc,              \* where generate_progress stands
    ap_sent,            \* what generate_progress sent to the client, in order
    ap_left             \* the events in the queue when it was deleted

mainVars == <<evidence, model_assessments, panel_results, cache, nextId,
              nextVid, nOps, last, fresh, newSince, returned>>

aggVars == <<agg_models, agg_summary>>

divVars == <<div_in, div_out>>

cacheVars == <<heap, rec_cache, held, expected, got, nCacheOps>>

agVars == <<ag_phase, ag_research, ag_pool, ag_running, ag_started,
            ag_verdicts>>

\* the variables of the components that are specified on their own
rlVars == <<rl_pc, rl_calls, rl_holds, rl_waiters, rl_sleep>>

recVars == <<rec_in, rec_out>>

fnVars == <<fn_in, fn_out>>

poolVars == <<sp_pool, sp_hashes, sp_last, sp_added, nAdds>>

swVars == <<sw_provider, sw_pc, sw_calls, sw_returned, sw_emitted, sw_lost>>

phVars == <<ph_results, ph_runs>>

crVars == <<cr_max, cr_pc, cr_turn, cr_collected, cr_log, cr_started,
            cr_outcomes, cr_returned>>

vqVars == <<vq_pc, vq_started, vq_result>>

apVars == <<ap_task, ap_queue, ap_emitted, ap_pc, ap_sent, ap_left>>

unitVars == <<divVars, cacheVars, agVars, rlVars, recVars,
             fnVars,
             poolVars,
             swVars,
             phVars,
             crVars,
             vqVars,
             apVars>>

sessVars == <<progress_streams, cancelled_sessions, task, research, replies,
              subscriber, sent, cancel_at, nCancels, cancel_reply>>

\* for each component: the variables of the others
besidesDiv ==
    <<mainVars, aggVars, sessVars, cacheVars, agVars, rlVars, recVars,
      fnVars,
      poolVars,
      swVars,
      phVars,
      crVars,
      vqVars,
      apVars>>
besidesCache ==
    <<mainVars, aggVars, sessVars, divVars, agVars, rlVars, recVars,
      fnVars,
      poolVars,
      swVars,
      phVars,
      crVars,
      vqVars,
      apVars>>
besidesAgentic ==
    <<mainVars, aggVars, sessVars, divVars, cacheVars, rlVars, recVars,
      fnVars,
      poolVars,
      swVars,
      phVars,
      crVars,
      vqVars,
      apVars>>
besidesLimiter ==
    <<mainVars, aggVars, sessVars, divVars, cacheVars, agVars, recVars,
      fnVars,
      poolVars,
      swVars,
      phVars,
      crVars,
      vqVars,
      apVars>>
besidesReconcile ==
    <<mainVars, aggVars, sessVars, divVars, cacheVars, agVars, rlVars,
      fnVars,
      poolVars,
      swVars,
      phVars,
      crVars,
      vqVars,
      apVars>>
besidesFn ==
    <<mainVars, aggVars, sessVars,
      divVars, cacheVars, agVars, rlVars, recVars,
      poolVars,
      swVars,
      phVars,
      crVars,
      vqVars,
      apVars>>
besidesPool ==
    <<mainVars, aggVars, sessVars,
      divVars, cacheVars, agVars, rlVars, recVars, fnVars,
      swVars,
      phVars,
      crVars,
      vqVars,
      apVars>>
besidesSearch ==
    <<mainVars, aggVars, sessVars,
      divVars, cacheVars, agVars, rlVars, recVars, fnVars, poolVars,
      phVars,
      crVars,
      vqVars,
      apVars>>
\* the components other than the search, the session apart
besidesSearchUnits ==
    <<divVars, cacheVars, agVars, rlVars, recVars, fnVars, poolVars,
      phVars,
      crVars,
      vqVars,
      apVars>>
besidesHistory ==
    <<mainVars, aggVars, sessVars,
      divVars, cacheVars, agVars, rlVars, recVars, fnVars, poolVars, swVars,
      crVars,
      vqVars,
      apVars>>

besidesResearcher ==
    <<mainVars, aggVars, sessVars,
      divVars, cacheVars, agVars, rlVars, recVars, fnVars, poolVars, swVars,
      phVars,
      vqVars,
      apVars>>

\* the components other than the researcher, the session apart
besidesResearcherUnits ==
    <<divVars, cacheVars, agVars, rlVars, recVars, fnVars, poolVars, swVars,
      phVars,
      vqVars,
      apVars>>

\* the components other than the verify requests, the claim apart
besidesVerifier ==
    <<aggVars, sessVars,
      divVars, cacheVars, agVars, rlVars, recVars, fnVars, poolVars, swVars,
      phVars, crVars,
      apVars>>

besidesPanelStream ==
    <<mainVars, aggVars, sessVars,
      divVars, cacheVars, agVars, rlVars, recVars, fnVars, poolVars, swVars,
      phVars, crVars, vqVars>>

----------------------------------------------------------------------------
(* Bounds of the model *)

MaxId == 4
MaxVerifiers == 2
Verifiers == 1..MaxVerifiers
MaxOps == 4
MaxModels == 2
MaxCancels == 2

(* Program constants *)

NoTime == 0
ConfOne == 100000
MaxPanelHistory == 5

----------------------------------------------------------------------------
(* Small universes of strings and the string functions tabulated on them *)

\* str.lower() on the strings of the model
Lower(s) ==
    CASE s = "A.com"          -> "a.com"
      [] s = "Alpha "         -> "alpha "
      [] s = "Alpha"          -> "alpha"
      [] OTHER                -> s

\* str.strip() on the strings of the model
Strip(s) ==
    CASE s = "Alpha " -> "Alpha"
      [] s = "alpha " -> "alpha"
      [] OTHER        -> s

\* str.rstrip("/") on the paths of the model
RstripSlash(p) ==
    CASE p = "/x/" -> "/x"
      [] p = "/"   -> ""
      [] OTHER     -> p

\* urlencode(sorted(parse_qsl(query))) on the queries of the model
SortQuery(q) ==
    CASE q = "b=2&a=1" -> "a=1&b=2"
      [] OTHER         -> q

\* A URL as urlparse sees it (no params in this universe).  The scheme is the
\* one urlparse reports, already lower case.
Url(scheme, host, path, query, frag) ==
    [scheme |-> scheme, host |-> host, path |-> path, query |-> query,
     frag |-> frag]

EmptyUrl == Url("", "", "", "", "")

normalize_url(url) ==
    IF url = EmptyUrl THEN EmptyUrl
    ELSE Url(IF url.scheme = "" THEN "https" ELSE Lower(url.scheme),
             Lower(url.host),
             IF RstripSlash(url.path) = "" THEN "/" ELSE RstripSlash(url.path),
             SortQuery(url.query),
             "")

NoHash == <<>>

\* The digest of the two stripped, lower-cased strings fed in turn; on the
\* strings of the model their concatenation determines the pair.
compute_content_hash(title, snippet) ==
    <<Lower(Strip(title)), Lower(Strip(snippet))>>

----------------------------------------------------------------------------
(* Evidence (models.py) *)

\* Evidence(...) followed by model_post_init: normalized_url and content_hash
\* are computed when they are not given.
MkEvidence(id, url, title, snippet, pub, nurl, hash) ==
    [id      |-> id,
     url     |-> url,
     title   |-> title,
     snippet |-> snippet,
     pub     |-> pub,
     nurl    |-> IF nurl = EmptyUrl /\ url # EmptyUrl
                   THEN normalize_url(url) ELSE nurl,
     hash    |-> IF hash = NoHash
                   THEN compute_content_hash(title, snippet) ELSE hash]

EvidenceIds(evs) == {evs[i].id : i \in DOMAIN evs}

IsPrefix(s, t) ==
    /\ Len(s) <= Len(t)
    /\ \A i \in DOMAIN s : s[i] = t[i]

\* A Python list built by a comprehension: the sequence with every element
\* evaluated
AsList(f) == f \o <<>>

\* sorted(seq, key=lambda e: e[key]): a stable insertion sort
RECURSIVE InsertKeyed(_, _, _)
InsertKeyed(x, sorted, key) ==
    IF sorted = <<>> THEN <<x>>
    ELSE IF x[key] < Head(sorted)[key]
         THEN <<x>> \o sorted
         ELSE <<Head(sorted)>> \o InsertKeyed(x, Tail(sorted), key)

RECURSIVE SortKeyed(_, _)
SortKeyed(seq, key) ==
    IF seq = <<>> THEN <<>>
    ELSE InsertKeyed(seq[Len(seq)],
                     SortKeyed(SubSeq(seq, 1, Len(seq) - 1), key), key)

\* sorted(evidence, key=lambda ev: ev.id)
SortById(evs) == SortKeyed(evs, "id")

\* sorted(evidence, key=lambda e: e.published_at or datetime.min)
SortByPublished(evs) == SortKeyed(evs, "pub")

----------------------------------------------------------------------------
(* verification.py: the deterministic cache *)

\* A claim text is the sequence of its characters.
ClaimText == <<"C", "r", "i", "m", "e", " ", "I", "S", " ", " ", "u", "p">>

DEFAULT_PROVIDERS == <<"gpt-5", "claude-sonnet-4-20250514">>

\* the place of a provider name in the order of str
ProviderRank(p) ==
    CASE p = "claude-sonnet-4-20250514" -> 1
      [] p = "gpt-4o" -> 2
      [] p = "gpt-5"  -> 3
      [] p = "grok-3" -> 4

RECURSIVE InsertProvider(_, _)
InsertProvider(p, sorted) ==
    IF sorted = <<>> THEN <<p>>
    ELSE IF ProviderRank(p) < ProviderRank(Head(sorted))
         THEN <<p>> \o sorted
         ELSE <<Head(sorted)>> \o InsertProvider(p, Tail(sorted))

\* sorted(providers)
RECURSIVE SortedProviders(_)
SortedProviders(providers) ==
    IF providers = <<>> THEN <<>>
    ELSE InsertProvider(providers[Len(providers)],
             SortedProviders(SubSeq(providers, 1, Len(providers) - 1)))

UpperLetters ==
    <<"A", "B", "C", "D", "E", "F", "G", "H", "I", "J", "K", "L", "M",
      "N", "O", "P", "Q", "R", "S", "T", "U", "V", "W", "X", "Y", "Z">>

LowerLetters ==
    <<"a", "b", "c", "d", "e", "f", "g", "h", "i", "j", "k", "l", "m",
      "n", "o", "p", "q", "r", "s", "t", "u", "v", "w", "x", "y", "z">>

\* str.lower on a character
LowerChar(c) ==
    IF \E k \in DOMAIN UpperLetters : UpperLetters[k] = c
    THEN LowerLetters[CHOOSE k \in DOMAIN UpperLetters : UpperLetters[k] = c]
    ELSE c

\* str.lower
str_lower(text) == [k \in DOMAIN text |-> LowerChar(text[k])]

\* the characters str.split() takes for separators
IsSpace(c) == c \in {" ", "\t", "\n"}

\* str.split(): the maximal runs of characters that are not whitespace
RECURSIVE SplitFrom(_, _, _)
SplitFrom(text, word, words) ==
    IF text = <<>>
    THEN IF word = <<>> THEN words ELSE Append(words, word)
    ELSE IF IsSpace(Head(text))
    THEN SplitFrom(Tail(text), <<>>,
                   IF word = <<>> THEN words ELSE Append(words, word))
    ELSE SplitFrom(Tail(text), Append(word, Head(text)), words)

str_split(text) == SplitFrom(text, <<>>, <<>>)

\* " ".join(words)
RECURSIVE join_space(_)
join_space(words) ==
    IF words = <<>> THEN <<>>
    ELSE IF Len(words) = 1 THEN words[1]
    ELSE words[1] \o <<" ">> \o join_space(Tail(words))

\* lines 28-30 without the lower-casing
normalize_keeping_case(text) == join_space(str_split(text))

\* lines 28-30
normalize_claim_text(text) == join_space(str_split(str_lower(text)))

TimeWindow(start, end) == [start |-> start, end |-> end]

\* The digest of the per-item records, items sorted by id; "no-sources" for
\* an empty list.
compute_sources_hash(evs) ==
    IF evs = <<>> THEN [tag |-> "no-sources", material |-> <<>>]
    ELSE LET s == SortById(evs)
         IN  [tag |-> "sha256",
              material |-> AsList([i \in DOMAIN s |->
                              <<s[i].id, s[i].url, s[i].snippet, s[i].pub>>])]

build_cache_key(claim_text, time_window, providers, sources_hash) ==
    [text      |-> normalize_claim_text(claim_text),
     start     |-> time_window.start,
     end       |-> time_window.end,
     providers |-> SortedProviders(providers),
     sources   |-> sources_hash]

NoRecord == [id |-> 0]

get_cached_verification(cache_key) ==
    IF cache_key \in DOMAIN cache THEN cache[cache_key] ELSE NoRecord

\* The cache after store_verification(cache_key, record)
store_verification(cache_key, record) ==
    [k \in DOMAIN cache \cup {cache_key} |->
        IF k = cache_key THEN record ELSE cache[k]]

\* lines 97-99 without the pass for items that have no publication date
InWindowDated(published, start, end) ==
    /\ published # NoTime
    /\ ~(start # NoTime /\ published < start)
    /\ ~(end # NoTime /\ published > end)

\* lines 95-106: the item passes the filter
InWindow(published, start, end) ==
    \/ published = NoTime
    \/ /\ ~(start # NoTime /\ published < start)
       /\ ~(end # NoTime /\ published > end)

filter_evidence_by_time_window(evs, start, end) ==
    IF start = NoTime /\ end = NoTime THEN evs
    ELSE SelectSeq(evs, LAMBDA item : InWindow(item.pub, start, end))

CountVerdict(assessments, v) ==
    Cardinality({i \in DOMAIN assessments : assessments[i].verdict = v})

_determine_verdict(assessments) ==
    IF assessments = <<>> THEN "uncertain"
    ELSE LET support == CountVerdict(assessments, "supports")
             refute  == CountVerdict(assessments, "refutes")
         IN  IF support > refute THEN "supports"
             ELSE IF refute > support THEN "refutes"
             ELSE IF support > 0 THEN "mixed"
             ELSE "uncertain"

create_verification_record(id, assessments, evs, providers, window, sources) ==
    [id           |-> id,
     verdict      |-> _determine_verdict(assessments),
     providers    |-> providers,
     evidence_ids |-> AsList([i \in DOMAIN evs |-> evs[i].id]),
     sources_hash |-> sources,
     time_window  |-> window]

----------------------------------------------------------------------------
(* Exact arithmetic on the confidences: a rational is [n, d], d > 0, in     *)
(* lowest terms.  The floats of the code are idealised as these rationals.  *)

RECURSIVE GCD(_, _)
GCD(a, b) == IF b = 0 THEN a ELSE GCD(b, a % b)

Abs(a) == IF a < 0 THEN -a ELSE a

Rat(n, d) ==
    LET g == GCD(Abs(n), d)
    IN  [n |-> n \div g, d |-> d \div g]

RatAdd(x, y) ==
    LET l == (x.d \div GCD(x.d, y.d)) * y.d
    IN  Rat(x.n * (l \div x.d) + y.n * (l \div y.d), l)

RatSub(x, y) == RatAdd(x, [n |-> -y.n, d |-> y.d])

RatAbs(x) == [n |-> Abs(x.n), d |-> x.d]

\* x / k for a positive integer k
RatDivInt(x, k) ==
    LET g == GCD(Abs(x.n), k)
    IN  [n |-> x.n \div g, d |-> x.d * (k \div g)]

RatLess(x, y) ==
    LET l == (x.d \div GCD(x.d, y.d)) * y.d
    IN  x.n * (l \div x.d) < y.n * (l \div y.d)

RatLeq(x, y) == x = y \/ RatLess(x, y)

\* The first k decimal digits of n/d by long division: <<quotient, remainder>>
RECURSIVE LongDiv(_, _, _)
LongDiv(n, d, k) ==
    IF k = 0 THEN <<n \div d, n % d>>
    ELSE LET p == LongDiv(n, d, k - 1)
         IN  <<p[1] * 10 + ((p[2] * 10) \div d), (p[2] * 10) % d>>

\* round(x, 4) for 0 <= x: to the nearest multiple of 1/10000, ties to even
Round4(x) ==
    LET p == LongDiv(x.n, x.d, 4)
        q == p[1]
        r == p[2]
        up == 2 * r > x.d \/ (2 * r = x.d /\ q % 2 = 1)
    IN  Rat(IF up THEN q + 1 ELSE q, 10000)

\* a confidence given in units of 1/ConfOne
Conf(c) == Rat(c, ConfOne)

----------------------------------------------------------------------------
(* panel/run_panel.py: aggregate_panel, lines 716-793 *)

ArgumentWithEvidence(evidence_ids, confidence) ==
    [evidence_ids |-> evidence_ids, confidence |-> confidence]

PanelModelVerdict(model, approval, refusal, failed) ==
    [model |-> model, approval_argument |-> approval,
     refusal_argument |-> refusal, failed |-> failed]

PanelSummary(support, refute, count, verdict) ==
    [support_confidence |-> support, refute_confidence |-> refute,
     model_count |-> count, verdict |-> verdict]

Zero == Rat(0, 1)
Half == Rat(1, 2)

ZeroSummary == PanelSummary(Zero, Zero, 0, "unknown")

\* line 734 with the filter forgotten
all_models(models) == models

\* line 734: failed models are filtered out
successful_models(models) == SelectSeq(models, LAMBDA m : ~m.failed)

\* lines 749-760 with the normalisation forgotten
raw_approval(model) == Conf(model.approval_argument.confidence)

\* lines 749-760: one model's confidences normalised to sum to 1
normalized_approval(model) ==
    LET total == model.approval_argument.confidence
                 + model.refusal_argument.confidence
    IN  IF total > 0 THEN Rat(model.approval_argument.confidence, total)
        ELSE Half

normalized_refusal(model) ==
    LET total == model.approval_argument.confidence
                 + model.refusal_argument.confidence
    IN  IF total > 0 THEN Rat(model.refusal_argument.confidence, total)
        ELSE Half

\* lines 745-766: the two means before they are rounded
RECURSIVE normalized_support_total(_)
normalized_support_total(models) ==
    IF models = <<>> THEN Zero
    ELSE RatAdd(normalized_support_total(SubSeq(models, 1, Len(models) - 1)),
                normalized_approval(models[Len(models)]))

RECURSIVE normalized_refute_total(_)
normalized_refute_total(models) ==
    IF models = <<>> THEN Zero
    ELSE RatAdd(normalized_refute_total(SubSeq(models, 1, Len(models) - 1)),
                normalized_refusal(models[Len(models)]))

mean_support(successful) ==
    RatDivInt(normalized_support_total(successful), Len(successful))

mean_refute(successful) ==
    RatDivInt(normalized_refute_total(successful), Len(successful))

\* lines 769-786 with the strong threshold made strict
panel_verdict_strict(support_confidence, refute_confidence) ==
    LET confidence_diff == RatAbs(RatSub(support_confidence,
                                         refute_confidence))
    IN  IF RatLess(refute_confidence, support_confidence)
        THEN IF RatLess(Rat(3, 10), confidence_diff) THEN "true"
             ELSE IF RatLeq(Rat(1, 10), confidence_diff) THEN "mixed"
             ELSE "unknown"
        ELSE IF RatLess(support_confidence, refute_confidence)
        THEN IF RatLess(Rat(3, 10), confidence_diff) THEN "false"
             ELSE IF RatLeq(Rat(1, 10), confidence_diff) THEN "mixed"
             ELSE "unknown"
        ELSE "mixed"

\* lines 769-786: the verdict from the two (unrounded) means
panel_verdict(support_confidence, refute_confidence) ==
    LET confidence_diff == RatAbs(RatSub(support_confidence,
                                         refute_confidence))
    IN  IF RatLess(refute_confidence, support_confidence)
        THEN IF RatLeq(Rat(3, 10), confidence_diff) THEN "true"
             ELSE IF RatLeq(Rat(1, 10), confidence_diff) THEN "mixed"
             ELSE "unknown"
        ELSE IF RatLess(support_confidence, refute_confidence)
        THEN IF RatLeq(Rat(3, 10), confidence_diff) THEN "false"
             ELSE IF RatLeq(Rat(1, 10), confidence_diff) THEN "mixed"
             ELSE "unknown"
        ELSE "mixed"

aggregate_panel(models) ==
    IF models = <<>> THEN ZeroSummary
    ELSE LET successful == successful_models(models)
         IN  IF successful = <<>> THEN ZeroSummary
             ELSE PanelSummary(Round4(mean_support(successful)),
                               Round4(mean_refute(successful)),
                               Len(successful),
                               panel_verdict(mean_support(successful),
                                             mean_refute(successful)))

----------------------------------------------------------------------------
(* mcp/explorer.py: the sources the explorer can return *)

UrlAX  == Url("https", "a.com", "/x", "", "")
UrlAX2 == Url("https", "A.com", "/x/", "", "top")
UrlBY  == Url("https", "b.com", "/y", "", "")

\* ExplorerAgent._build_source on a hydrated item of deduplicate_sources
ExplorerSource(url, title, snippet, pub) ==
    [url |-> url, title |-> title, snippet |-> snippet, pub |-> pub,
     normalized_url |-> normalize_url(url),
     content_hash   |-> compute_content_hash(title, snippet)]

SrcA  == ExplorerSource(UrlAX,  "t", "alpha", 1)
SrcA2 == ExplorerSource(UrlAX2, "t", "beta",  2)
SrcB  == ExplorerSource(UrlBY,  "t", "Alpha ", NoTime)

\* The deduplicated, built sources of one gather_sources call
\* (explorer.py:290-291: no two share a normalized URL); the empty list also
\* stands for a gather that raised (main.py:233-241).
GatherCandidates == {<<>>, <<SrcA, SrcB>>}

\* ExplorerSource.to_evidence
to_evidence(source, id) ==
    MkEvidence(id, source.url, source.title, source.snippet, source.pub,
               source.normalized_url, source.content_hash)

\* ExplorerAgent._apply_time_window
_apply_time_window(sources, window) ==
    IF window.start = NoTime /\ window.end = NoTime THEN sources
    ELSE SelectSeq(sources, LAMBDA source :
             \/ source.pub = NoTime
             \/ /\ ~(window.start # NoTime /\ source.pub < window.start)
                /\ ~(window.end # NoTime /\ source.pub > window.end))

\* ExplorerAgent.gather_sources from the built sources on (lines 293-308);
\* the diversity cap and target_count do not bind on lists this short
gather_sources(explorer_sources, time_window) ==
    _apply_time_window(explorer_sources, time_window)

----------------------------------------------------------------------------
(* main.py: _gather_and_persist_sources, lines 243-331 (session_id = None) *)

\* lines 256-259 without the test of the content hash
RECURSIVE PersistLoopByUrl(_, _)
PersistLoopByUrl(gathered, st) ==
    IF gathered = <<>> THEN st
    ELSE LET source == Head(gathered)
             nurl   == IF source.normalized_url # EmptyUrl
                         THEN source.normalized_url
                         ELSE normalize_url(source.url)
             ev     == to_evidence(source, st.nextId)
         IN  IF nurl # EmptyUrl /\ nurl \in st.urls
             THEN PersistLoopByUrl(Tail(gathered), st)
             ELSE PersistLoopByUrl(Tail(gathered),
                    [evidence |-> Append(st.evidence, ev),
                     new      |-> Append(st.new, ev),
                     urls     |-> IF ev.nurl # EmptyUrl
                                    THEN st.urls \cup {ev.nurl} ELSE st.urls,
                     hashes   |-> st.hashes,
                     nextId   |-> st.nextId + 1])

\* The deduplicating loop over the gathered sources.  st carries the claim's
\* evidence, the new evidence, the two deduplication sets and the id counter.
RECURSIVE PersistLoop(_, _)
PersistLoop(gathered, st) ==
    IF gathered = <<>> THEN st
    ELSE LET source == Head(gathered)
             nurl   == IF source.normalized_url # EmptyUrl
                         THEN source.normalized_url
                         ELSE normalize_url(source.url)
             chash  == source.content_hash
             ev     == to_evidence(source, st.nextId)
         IN  IF \/ (nurl # EmptyUrl /\ nurl \in st.urls)
                \/ (chash # NoHash /\ chash \in st.hashes)
             THEN PersistLoop(Tail(gathered), st)
             ELSE PersistLoop(Tail(gathered),
                    [evidence |-> Append(st.evidence, ev),
                     new      |-> Append(st.new, ev),
                     urls     |-> IF ev.nurl # EmptyUrl
                                    THEN st.urls \cup {ev.nurl} ELSE st.urls,
                     hashes   |-> IF ev.hash # NoHash
                                    THEN st.hashes \cup {ev.hash} ELSE st.hashes,
                     nextId   |-> st.nextId + 1])

\* lines 270-271 with the claim's list replaced by the new evidence instead
\* of being appended to
_gather_and_replace_sources(evs, gathered, id) ==
    IF gathered = <<>>
    THEN [evidence |-> evs, new |-> <<>>, nextId |-> id]
    ELSE LET st == PersistLoop(gathered,
                     [evidence |-> evs,
                      new      |-> <<>>,
                      urls     |-> {evs[i].nurl : i \in DOMAIN evs} \ {EmptyUrl},
                      hashes   |-> {evs[i].hash : i \in DOMAIN evs} \ {NoHash},
                      nextId   |-> id])
         IN  [evidence |-> st.new, new |-> st.new, nextId |-> st.nextId]

_gather_and_persist_sources(evs, gathered, id) ==
    IF gathered = <<>>
    THEN [evidence |-> evs, new |-> <<>>, nextId |-> id]
    ELSE LET st == PersistLoop(gathered,
                     [evidence |-> evs,
                      new      |-> <<>>,
                      urls     |-> {evs[i].nurl : i \in DOMAIN evs} \ {EmptyUrl},
                      hashes   |-> {evs[i].hash : i \in DOMAIN evs} \ {NoHash},
                      nextId   |-> id])
         IN  [evidence |-> st.evidence, new |-> st.new, nextId |-> st.nextId]

----------------------------------------------------------------------------
(* panel/agentic_research.py: what a researcher returns and the shared pool *)

\* a collected source (a dict of the search tool)
ResearchSource(url, title, snippet, pub) ==
    [url |-> url, title |-> title, snippet |-> snippet, pub |-> pub]

ResR1 == ResearchSource(UrlAX, "t", "gamma", 1)

\* AgenticResearcher._convert_to_evidence: normalized_url is given the raw
\* URL, content_hash is given "" and so is computed by model_post_init.
_convert_to_evidence(sources, id) ==
    AsList([i \in DOMAIN sources |->
        MkEvidence(id + i - 1, sources[i].url, sources[i].title,
                   sources[i].snippet, sources[i].pub, sources[i].url,
                   NoHash)])

\* SharedEvidencePool.add_evidence: the pool after adding evidence_list,
\* deduplicated by URL
RECURSIVE add_evidence(_, _)
add_evidence(evidence_pool, evidence_list) ==
    IF evidence_list = <<>> THEN evidence_pool
    ELSE LET ev == Head(evidence_list)
             source_hashes == {evidence_pool[i].url : i \in DOMAIN evidence_pool}
         IN  IF ev.url \notin source_hashes
             THEN add_evidence(Append(evidence_pool, ev), Tail(evidence_list))
             ELSE add_evidence(evidence_pool, Tail(evidence_list))

\* run_agentic_panel_evaluation, lines 547-572: the researchers' results, in
\* the order of the models, converted and collected in the pool
RECURSIVE CollectResearch(_, _, _)
CollectResearch(research_results, evidence_pool, id) ==
    IF research_results = <<>> THEN [pool |-> evidence_pool, nextId |-> id]
    ELSE LET evidence_list == _convert_to_evidence(Head(research_results), id)
         IN  CollectResearch(Tail(research_results),
                             add_evidence(evidence_pool, evidence_list),
                             id + Len(evidence_list))

----------------------------------------------------------------------------
(* panel/run_panel.py: prompt, adapters, the two panel modes *)

DEFAULT_PANEL_MODELS ==
    <<"gpt-4o", "grok-3", "gemini-2.0-flash-exp", "claude-sonnet-4-20250514">>

\* request.models of the panel requests of the model
RequestModels == <<"gpt-4o", "grok-3">>

\* str(uuid)
StrId(id) == <<"uuid", id>>

build_normalized_prompt(evs, window) ==
    LET sorted == SortByPublished(evs)
    IN  [evidence |-> AsList([i \in DOMAIN sorted |->
                          [id |-> StrId(sorted[i].id),
                           snippet |-> sorted[i].snippet,
                           url |-> sorted[i].url,
                           published_at |-> sorted[i].pub]]),
         time_window |-> window,
         evidence_count |-> Len(sorted)]

\* {str(ev.id): ev.id for ev in evidence}
EvidenceLookup(evs) ==
    [k \in {StrId(evs[i].id) : i \in DOMAIN evs} |-> k[2]]

\* A provider's answer to a prompt: it raises an error that
\* _should_fail_on_error takes for fatal, or it is a payload.  A payload has
\* the confidences of _stub_profile for the provider and cites a token that
\* names no evidence, then the first three evidence items of the prompt (as
\* _generate_stub_payload cites).
ProviderReplies == {"raise", "payload"}

\* _stub_profile of the provider id the adapter of the model carries
_stub_profile(model) ==
    CASE model = "gpt-4o"                   -> <<75000, 25000>>
      [] model = "grok-3"                   -> <<30000, 70000>>
      [] model = "gemini-2.0-flash-exp"     -> <<55000, 45000>>
      [] model = "claude-sonnet-4-20250514" -> <<65000, 35000>>
      [] OTHER                              -> <<60000, 40000>>

StrayToken == <<"uuid", 0>>

CitedTokens(prompt) ==
    LET n == IF Len(prompt.evidence) < 3 THEN Len(prompt.evidence) ELSE 3
    IN  <<StrayToken>> \o [i \in 1..n |-> prompt.evidence[i].id]

\* A value of the evidence_ids of a parsed payload: <<"uuid", n>> is the
\* string of a UUID, <<"text", n>> another string (the decimal text of n, ""
\* for 0), <<"num", n>> a number, <<"none", 0>> null; <<"UUID", n>> is a UUID
\* object, which no parsed JSON text holds
isinstance_UUID(value) == value[1] = "UUID"

\* not value
IsFalsy(value) == value \in {<<"none", 0>>, <<"text", 0>>, <<"num", 0>>}

\* str(value): a string is itself, a number its decimal text
str_value(value) == IF value[1] = "num" THEN <<"text", value[2]>> ELSE value

\* _map_citations, lines 996-1006, with every token taken for the evidence
\* it numbers
RECURSIVE MapEveryToken(_, _, _)
MapEveryToken(values, evidence_lookup, mapped) ==
    IF values = <<>> THEN mapped
    ELSE LET value == Head(values)
         IN  MapEveryToken(Tail(values), evidence_lookup,
                 IF IsFalsy(value) THEN mapped
                 ELSE Append(mapped, value[2]))

\* _map_citations, lines 996-1006: a UUID object is taken as it is, a falsy
\* value is skipped, any other value is mapped when its string is a key of
\* the lookup
RECURSIVE MapCitationsFrom(_, _, _)
MapCitationsFrom(values, evidence_lookup, mapped) ==
    IF values = <<>> THEN mapped
    ELSE LET value == Head(values)
             token == str_value(value)
         IN  MapCitationsFrom(Tail(values), evidence_lookup,
                 IF isinstance_UUID(value) THEN Append(mapped, value[2])
                 ELSE IF IsFalsy(value) THEN mapped
                 ELSE IF token \in DOMAIN evidence_lookup
                 THEN Append(mapped, evidence_lookup[token])
                 ELSE mapped)

\* _map_citations, lines 1007-1014: duplicates removed, order preserved
RECURSIVE RemoveDuplicates(_, _)
RemoveDuplicates(mapped, result) ==
    IF mapped = <<>> THEN result
    ELSE IF \E i \in DOMAIN result : result[i] = Head(mapped)
         THEN RemoveDuplicates(Tail(mapped), result)
         ELSE RemoveDuplicates(Tail(mapped), Append(result, Head(mapped)))

_map_citations(values, evidence_lookup) ==
    IF values = <<>> THEN <<>>
    ELSE RemoveDuplicates(MapCitationsFrom(values, evidence_lookup, <<>>),
                          <<>>)

\* _parse_confidence: clamped to [0, 1]
_parse_confidence(value) ==
    IF value < 0 THEN 0 ELSE IF value > ConfOne THEN ConfOne ELSE value

\* The payload of a provider that answers: the confidences of the profile,
\* both arguments with the cited tokens
ParsedPayload(model, prompt) ==
    [approval_argument |-> [evidence_ids |-> CitedTokens(prompt),
                            confidence |-> _stub_profile(model)[1]],
     refusal_argument  |-> [evidence_ids |-> CitedTokens(prompt),
                            confidence |-> _stub_profile(model)[2]]]

\* BaseProviderAdapter.evaluate, lines 137-194, on the parsed payload
evaluate_parsed(model, parsed, evidence_lookup) ==
    PanelModelVerdict(model,
        ArgumentWithEvidence(
            _map_citations(parsed.approval_argument.evidence_ids,
                           evidence_lookup),
            _parse_confidence(parsed.approval_argument.confidence)),
        ArgumentWithEvidence(
            _map_citations(parsed.refusal_argument.evidence_ids,
                           evidence_lookup),
            _parse_confidence(parsed.refusal_argument.confidence)),
        FALSE)

\* BaseProviderAdapter.evaluate
evaluate(model, prompt, evidence_lookup) ==
    evaluate_parsed(model, ParsedPayload(model, prompt), evidence_lookup)

_create_failed_verdict(model) ==
    PanelModelVerdict(model, ArgumentWithEvidence(<<>>, 0),
                      ArgumentWithEvidence(<<>>, 0), TRUE)

PanelResult(prompt, models, summary) ==
    [prompt |-> prompt, models |-> models, summary |-> summary]

\* run_agentic_panel_evaluation, lines 643-652: duplicates by raw URL removed,
\* order preserved
RECURSIVE UniqueByUrl(_, _)
UniqueByUrl(evs, unique_evidence) ==
    IF evs = <<>> THEN unique_evidence
    ELSE LET seen_urls == {unique_evidence[i].url : i \in DOMAIN unique_evidence}
         IN  IF Head(evs).url \notin seen_urls
             THEN UniqueByUrl(Tail(evs), Append(unique_evidence, Head(evs)))
             ELSE UniqueByUrl(Tail(evs), unique_evidence)

\* run_agentic_panel_evaluation: research, verdicts (a model that raises gets
\* a failed verdict), the merge into the claim, the aggregate
run_agentic_panel_evaluation(evs, models, window, results, answers, id) ==
    LET collected == CollectResearch(results, <<>>, id)
        all_evidence == collected.pool
        prompt == build_normalized_prompt(all_evidence, window)
        evidence_lookup == EvidenceLookup(all_evidence)
        panel_models ==
            AsList([i \in DOMAIN models |->
                IF answers[i] = "raise"
                THEN _create_failed_verdict(models[i])
                ELSE evaluate(models[i], prompt, evidence_lookup)])
    IN  [raised   |-> FALSE,
         result   |-> PanelResult(prompt, panel_models,
                                  aggregate_panel(panel_models)),
         evidence |-> UniqueByUrl(evs \o all_evidence, <<>>),
         nextId   |-> collected.nextId]

\* run_panel_evaluation: the agentic mode, or the original mode, where the
\* loop over the models has no handler and a model that raises ends the call
run_panel_evaluation(evs, models, window, agentic, results, answers, id) ==
    IF agentic
    THEN run_agentic_panel_evaluation(evs, models, window, results, answers, id)
    ELSE IF evs = <<>> \/ \E i \in DOMAIN models : answers[i] = "raise"
    THEN [raised |-> TRUE, evidence |-> evs, nextId |-> id]
    ELSE LET prompt == build_normalized_prompt(evs, window)
             evidence_lookup == EvidenceLookup(evs)
             panel_models ==
                AsList([i \in DOMAIN models |->
                    evaluate(models[i], prompt, evidence_lookup)])
         IN  [raised   |-> FALSE,
              result   |-> PanelResult(prompt, panel_models,
                                       aggregate_panel(panel_models)),
              evidence |-> evs,
              nextId   |-> id]

\* list(set(a + b)) as a list without repetition
UnionIds(a, b) ==
    a \o SelectSeq(b, LAMBDA x : \A i \in DOMAIN a : a[i] # x)

ModelAssessment(model_name, verdict, confidence, citations) ==
    [model_name |-> model_name, verdict |-> verdict,
     confidence |-> confidence, citations |-> citations]

panel_result_to_assessments(panel) ==
    AsList([i \in DOMAIN panel.models |->
        LET model == panel.models[i]
            a == model.approval_argument
            r == model.refusal_argument
        IN  IF a.confidence > r.confidence
            THEN ModelAssessment(model.model, "supports", Conf(a.confidence),
                                 a.evidence_ids)
            ELSE IF r.confidence > a.confidence
            THEN ModelAssessment(model.model, "refutes", Conf(r.confidence),
                                 r.evidence_ids)
            ELSE ModelAssessment(model.model, "mixed",
                     RatDivInt(RatAdd(Conf(a.confidence), Conf(r.confidence)),
                               2),
                     UnionIds(a.evidence_ids, r.evidence_ids))])

----------------------------------------------------------------------------
(* main.py: verify_claim, lines 674-769 *)

\* The verify requests of the model: time_start/time_end as a window, and
\* providers[], where <<>> is an omitted parameter
VerifyRequests ==
    {[window |-> TimeWindow(NoTime, NoTime), providers |-> <<>>],
     [window |-> TimeWindow(NoTime, 1),      providers |-> <<"gpt-5">>],
     [window |-> TimeWindow(2, NoTime),      providers |-> <<>>]}

SelectedProviders(providers) ==
    IF providers = <<>> THEN DEFAULT_PROVIDERS ELSE providers

VerifyInputs ==
    {<<r.window, SelectedProviders(r.providers)>> : r \in VerifyRequests}

\* lines 704-707 with the force flag ignored
LookupAlways(force, cache_key) == get_cached_verification(cache_key)

\* lines 704-707: the cache is consulted unless force refresh is requested
LookupUnlessForced(force, cache_key) ==
    IF ~force THEN get_cached_verification(cache_key) ELSE NoRecord

\* line 731 without the test for new evidence
ReturnsCachedWheneverFound(new_evidence, cached_record) ==
    cached_record # NoRecord

\* lines 721-745: a cached record is returned only when no new evidence came
ReturnsCached(new_evidence, cached_record) ==
    new_evidence = <<>> /\ cached_record # NoRecord

VerificationResponse(record, cached) ==
    [verification_id |-> record.id,
     cached          |-> cached,
     verdict         |-> record.verdict,
     providers       |-> record.providers,
     evidence_ids    |-> record.evidence_ids,
     time_window     |-> record.time_window]

\* The whole handler: what it returns and what it leaves in the claim, the
\* cache and the id counters.
verify_claim(window, providers, force, gathered) ==
    LET selected_providers == SelectedProviders(providers)
        in_range0  == filter_evidence_by_time_window(evidence, window.start,
                                                     window.end)
        existing_sources_hash == compute_sources_hash(in_range0)
        existing_cache_key == build_cache_key(ClaimText, window,
                                  selected_providers, existing_sources_hash)
        cached_record == LookupUnlessForced(force, existing_cache_key)
        g == _gather_and_persist_sources(evidence, gathered, nextId)
        in_range == filter_evidence_by_time_window(g.evidence, window.start,
                                                   window.end)
        sources_hash == IF g.new # <<>> THEN compute_sources_hash(in_range)
                        ELSE existing_sources_hash
        cache_key == IF g.new # <<>>
                     THEN build_cache_key(ClaimText, window,
                              selected_providers, sources_hash)
                     ELSE existing_cache_key
        new_record == create_verification_record(nextVid, model_assessments,
                          in_range, selected_providers, window, sources_hash)
    IN  IF ReturnsCached(g.new, cached_record)
        THEN [response |-> VerificationResponse(cached_record, TRUE),
              evidence |-> g.evidence,
              new      |-> g.new,
              cache    |-> cache,
              nextId   |-> g.nextId,
              nextVid  |-> nextVid]
        ELSE [response |-> VerificationResponse(new_record, FALSE),
              evidence |-> g.evidence,
              new      |-> g.new,
              cache    |-> store_verification(cache_key, new_record),
              nextId   |-> g.nextId,
              nextVid  |-> nextVid + 1]

NoFresh == [inp \in VerifyInputs |-> 0]

Verify(window, providers, force, gathered) ==
    \E out \in {verify_claim(window, providers, force, gathered)} :
    LET inp == <<window, SelectedProviders(providers)>>
    IN  /\ nOps < MaxOps
        /\ out.nextId <= MaxId + 1
        /\ nOps' = nOps + 1
        /\ evidence' = out.evidence
        /\ cache' = out.cache
        /\ nextId' = out.nextId
        /\ nextVid' = out.nextVid
        /\ returned' = returned \cup {out.response.verification_id}
        /\ fresh' = [(IF out.new # <<>> THEN NoFresh ELSE fresh)
                        EXCEPT ![inp] = out.response.verification_id]
        /\ newSince' = {}
        /\ last' = [op          |-> "verify",
                    cached      |-> out.response.cached,
                    vid         |-> out.response.verification_id,
                    verdict     |-> out.response.verdict,
                    inputs      |-> inp,
                    force       |-> force,
                    evidence_ids |-> out.response.evidence_ids,
                    gatherAdded |-> Len(out.new),
                    otherAdded  |-> newSince # {},
                    otherInWindow |->
                        \E i \in DOMAIN evidence :
                            /\ evidence[i].id \in newSince
                            /\ InWindow(evidence[i].pub, window.start,
                                        window.end),
                    prevSame    |-> fresh[inp],
                    wasReturned |-> out.response.verification_id \in returned]
        /\ UNCHANGED <<model_assessments, panel_results>>

----------------------------------------------------------------------------
(* main.py: add_statcan_evidence, lines 417-449, with                      *)
(* statcan/fetch_csi.py: fetch_crime_severity_data                         *)

UrlTable  == Url("https", "www150.statcan.gc.ca", "/t1/tbl1/en/tv.action",
                 "pid=35100026", "")
UrlMethod == Url("https", "www23.statcan.gc.ca", "/imdb/p2SV.pl",
                 "Function=getSurvey&SDDS=3302", "")

\* Evidence(url=..., snippet=..., published_at=...) as fetch_csi.py builds it:
\* no title, no normalized_url, no content_hash given
StatcanItem(url, snippet) ==
    [url |-> url, title |-> "", snippet |-> snippet, pub |-> 2]

\* What fetch_crime_severity_data returns when the live table cannot be
\* fetched: the fallback list (lines 248-275)
StatcanBatches ==
    {<<StatcanItem(UrlTable, "total csi"), StatcanItem(UrlTable, "violent csi"),
       StatcanItem(UrlMethod, "limitations")>>}

StatcanEvidence(batch, id) ==
    AsList([i \in DOMAIN batch |->
        MkEvidence(id + i - 1, batch[i].url, batch[i].title, batch[i].snippet,
                   batch[i].pub, EmptyUrl, NoHash)])

AddStatcan(batch) ==
    LET evidence_list == StatcanEvidence(batch, nextId)
    IN  /\ nOps < MaxOps
        /\ nextId + Len(batch) <= MaxId + 1
        /\ nOps' = nOps + 1
        /\ evidence' = evidence \o evidence_list
        /\ nextId' = nextId + Len(batch)
        /\ newSince' = newSince \cup EvidenceIds(evidence_list)
        /\ fresh' = NoFresh
        /\ last' = [op |-> "statcan"]
        /\ UNCHANGED <<model_assessments, panel_results, cache, nextVid,
                       returned>>

----------------------------------------------------------------------------
(* main.py: run_model_panel, lines 772-825.  claims_db holds the one claim, *)
(* so _apply_complementary_reconciliation finds no other claim of the topic *)
(* and returns the panel result as it is.                                   *)

\* main.py:799-801 with nothing dropped
KeepAll(seq, n) == seq

\* main.py:799-801: claim.panel_results[-5:]
LastN(seq, n) ==
    IF Len(seq) > n THEN SubSeq(seq, Len(seq) - n + 1, Len(seq)) ELSE seq

NoResearch == [i \in DOMAIN RequestModels |-> <<>>]

\* What the providers answer in one run, in the order of the models: at most
\* one of them raises
ReplyOutcomes ==
    {r \in [DOMAIN RequestModels -> ProviderReplies] :
        Cardinality({i \in DOMAIN r : r[i] = "raise"}) <= 1}

\* What the researchers of one run return, in the order of the models
ResearchOutcomes == {NoResearch, [i \in DOMAIN RequestModels |-> <<ResR1>>]}

PanelRun(agentic, research_results, provider_replies) ==
    LET out == run_panel_evaluation(evidence, RequestModels,
                   TimeWindow(NoTime, NoTime), agentic, research_results,
                   provider_replies, nextId)
        added == EvidenceIds(out.evidence) \ EvidenceIds(evidence)
    IN  /\ nOps < MaxOps
        /\ agentic \/ research_results = NoResearch
        /\ out.nextId <= MaxId + 1
        /\ nOps' = nOps + 1
        /\ evidence' = out.evidence
        /\ nextId' = out.nextId
        /\ newSince' = newSince \cup added
        /\ fresh' = IF added # {} THEN NoFresh ELSE fresh
        /\ last' = [op |-> "panel", agentic |-> agentic,
                    raised |-> out.raised,
                    hadEvidence |-> evidence # <<>>,
                    failing |-> {i \in DOMAIN provider_replies :
                                    provider_replies[i] = "raise"}]
        /\ IF out.raised
           THEN \* HTTP 500: the claim is left as it was
                UNCHANGED <<model_assessments, panel_results>>
           ELSE /\ panel_results' = LastN(Append(panel_results, out.result),
                                          MaxPanelHistory)
                /\ model_assessments' = panel_result_to_assessments(out.result)
        /\ UNCHANGED <<cache, nextVid, returned>>

----------------------------------------------------------------------------
(* main.py: one session of POST /claims/create-async: the background task   *)
(* _create_claim_from_query_background, the progress stream and its         *)
(* consumer, and DELETE /claims/progress/{session_id}.  The claim the task  *)
(* creates is the claim of the model (no evidence yet).  The queue of a     *)
(* session is unbounded, so an emit does not suspend the task: the task can *)
(* be overtaken only while it awaits the researchers or a provider.         *)

Sid == "sid-1"

\* a session id create_claim_async never handed out
UnknownSid == "sid-0"

NoCancel == [stage |-> "none"]

\* no cancel request answered yet
NoReply == [status |-> 0]

\* generate_progress_stream, line 161 with a stream that also ends when the
\* evaluation timed out
TerminalStagesWithTimeout ==
    {"complete", "error", "cancelled", "evaluation_timeout"}

\* line 161: the stages that end the stream

TerminalStages == {"complete", "error", "cancelled"}

\* emit_progress: the streams after the put; nothing without a stream
emit_progress(streams, session_id, stage) ==
    IF session_id \in DOMAIN streams
    THEN [streams EXCEPT ![session_id] = Append(@, stage)]
    ELSE streams

\* successive emits of one task step, in order
RECURSIVE EmitStages(_, _, _)
EmitStages(streams, session_id, stages) ==
    IF stages = <<>> THEN streams
    ELSE EmitStages(emit_progress(streams, session_id, Head(stages)),
                    session_id, Tail(stages))

\* check_cancellation: TRUE when it raises CancelledError
check_cancellation(session_id) == session_id \in cancelled_sessions

\* What the researchers of the session's run return, in the order of the
\* models
SessionResearchOutcomes ==
    {[i \in DOMAIN DEFAULT_PANEL_MODELS |-> <<>>],
     [i \in DOMAIN DEFAULT_PANEL_MODELS |->
        IF i = 1 THEN <<ResR1>> ELSE <<>>]}

InitSession ==
    /\ progress_streams = <<>>
    /\ cancelled_sessions = {}
    /\ task = "none"
    /\ research = <<>>
    /\ replies = <<>>
    /\ subscriber = "none"
    /\ sent = "none"
    /\ cancel_at = NoCancel
    /\ nCancels = 0
    /\ cancel_reply = NoReply

\* create_claim_async: the stream is created and the task scheduled
CreateClaimAsync ==
    /\ task = "none"
    /\ progress_streams' =
          [k \in DOMAIN progress_streams \cup {Sid} |->
              IF k = Sid THEN <<>> ELSE progress_streams[k]]
    /\ task' = "scheduled"
    /\ UNCHANGED <<cancelled_sessions, research, replies, subscriber, sent,
                   cancel_at, nCancels, mainVars, aggVars, unitVars, cancel_reply>>

\* The task runs from its first line to the await of the researchers
\* (main.py:556-621, run_panel.py:517-561): the three cancellation checks,
\* then the emits.  A check that raises ends the task through the handlers
\* of _create_claim_from_query_background.
TaskStart ==
    /\ task = "scheduled"
    /\ IF check_cancellation(Sid)
       THEN /\ progress_streams' =
                 emit_progress(progress_streams, Sid, "cancelled")
            /\ cancelled_sessions' = cancelled_sessions \ {Sid}
            /\ task' = "ended"
       ELSE /\ progress_streams' =
                 EmitStages(progress_streams, Sid,
                     <<"initializing", "searching", "evaluating",
                       "agent_activity">>)
            /\ task' = "research"
            /\ UNCHANGED cancelled_sessions
    /\ UNCHANGED <<research, replies, subscriber, sent, cancel_at, nCancels,
                   mainVars, aggVars, unitVars, cancel_reply>>

\* asyncio.gather returns the researchers' results; the task goes on to the
\* await of the first provider (run_panel.py:561-625)
ResearchDone(research_results) ==
    /\ task = "research"
    /\ research' = research_results
    /\ progress_streams' =
          EmitStages(progress_streams, Sid,
              <<"agent_activity", "agent_activity", "agent_activity">>)
    /\ task' = "evaluating"
    /\ UNCHANGED <<cancelled_sessions, replies, subscriber, sent, cancel_at,
                   nCancels, mainVars, aggVars, unitVars, cancel_reply>>

\* A provider answers.  With models left the task goes on to the await of
\* the next one (run_panel.py:612-641); after the last one it runs to its
\* end: the merge and the aggregate (643-668), the panel result and the
\* assessments stored in the claim (main.py:622-623), the closing emits and
\* the cleanup of _create_claim_from_query_background.
ModelDone(reply) ==
    LET answered == Append(replies, reply)
        failure  == IF reply = "raise" THEN <<"agent_activity">> ELSE <<>>
        out == run_agentic_panel_evaluation(evidence, DEFAULT_PANEL_MODELS,
                   TimeWindow(NoTime, NoTime), research, answered, nextId)
    IN  /\ task = "evaluating"
        /\ replies' = answered
        /\ IF Len(answered) < Len(DEFAULT_PANEL_MODELS)
           THEN /\ progress_streams' =
                     EmitStages(progress_streams, Sid,
                                failure \o <<"agent_activity">>)
                /\ UNCHANGED <<task, cancelled_sessions, evidence, nextId,
                               panel_results, model_assessments>>
           ELSE /\ evidence' = out.evidence
                /\ nextId' = out.nextId
                /\ panel_results' = Append(panel_results, out.result)
                /\ model_assessments' = panel_result_to_assessments(out.result)
                /\ progress_streams' =
                     EmitStages(progress_streams, Sid,
                         failure \o <<"agent_activity", "evaluation_complete",
                                      "complete">>)
                /\ cancelled_sessions' = cancelled_sessions \ {Sid}
                /\ task' = "ended"
        /\ UNCHANGED <<research, subscriber, sent, cancel_at, nCancels, cache,
                       nextVid, nOps, last, fresh, newSince, returned,
                       aggVars, unitVars, cancel_reply>>

\* asyncio.wait_for gives up after 180 s (main.py:611-642): the run is
\* abandoned, nothing of it is stored, the task runs to its end
EvaluationTimeout ==
    /\ task \in {"research", "evaluating"}
    /\ progress_streams' =
          EmitStages(progress_streams, Sid,
                     <<"evaluation_timeout", "complete">>)
    /\ cancelled_sessions' = cancelled_sessions \ {Sid}
    /\ task' = "ended"
    /\ UNCHANGED <<research, replies, subscriber, sent, cancel_at, nCancels,
                   mainVars, aggVars, unitVars, cancel_reply>>

\* cancel_claim_creation with the membership test left out
CancelAnySession(session_id) ==
    /\ nCancels < MaxCancels
    /\ nCancels' = nCancels + 1
    /\ cancelled_sessions' = cancelled_sessions \cup {session_id}
    /\ progress_streams' =
          emit_progress(progress_streams, session_id, "cancelled")
    /\ cancel_reply' = [status |-> 200, session_id |-> session_id]
    /\ cancel_at' =
          IF cancel_at = NoCancel /\ session_id = Sid
             /\ task \in {"scheduled", "research", "evaluating"}
          THEN [stage |-> task, evaluated |-> Len(replies)]
          ELSE cancel_at
    /\ UNCHANGED <<task, research, replies, subscriber, sent, mainVars,
                   aggVars, unitVars>>

\* cancel_claim_creation: accepted when the session has a stream; without
\* one the request is answered 404 and nothing changes
CancelClaimCreation(session_id) ==
    IF session_id \in DOMAIN progress_streams
    THEN /\ nCancels < MaxCancels
         /\ nCancels' = nCancels + 1
         /\ cancelled_sessions' = cancelled_sessions \cup {session_id}
         /\ progress_streams' =
               emit_progress(progress_streams, session_id, "cancelled")
         /\ cancel_reply' = [status |-> 200, session_id |-> session_id]
         /\ cancel_at' =
               IF cancel_at = NoCancel
                  /\ task \in {"scheduled", "research", "evaluating"}
               THEN [stage |-> task, evaluated |-> Len(replies)]
               ELSE cancel_at
         /\ UNCHANGED <<task, research, replies, subscriber, sent, mainVars,
                        aggVars, unitVars>>
    ELSE /\ cancel_reply' = [status |-> 404, session_id |-> session_id]
         /\ UNCHANGED <<progress_streams, cancelled_sessions, cancel_at,
                        nCancels, task, research, replies, subscriber, sent,
                        mainVars, aggVars, unitVars>>

\* GET /claims/progress/{session_id}: generate_progress_stream starts, and
\* creates the stream when there is none
Subscribe ==
    /\ task # "none"
    /\ subscriber # "streaming"
    /\ subscriber' = "streaming"
    /\ progress_streams' =
          IF Sid \in DOMAIN progress_streams THEN progress_streams
          ELSE [k \in DOMAIN progress_streams \cup {Sid} |->
                   IF k = Sid THEN <<>> ELSE progress_streams[k]]
    /\ UNCHANGED <<cancelled_sessions, task, research, replies, sent,
                   cancel_at, nCancels, mainVars, aggVars, unitVars, cancel_reply>>

\* generate_progress_stream takes the next event and sends it; a terminal
\* stage ends the stream, and the stream is deleted
StreamNext ==
    /\ subscriber = "streaming"
    /\ Sid \in DOMAIN progress_streams
    /\ progress_streams[Sid] # <<>>
    /\ LET event_data == Head(progress_streams[Sid])
       IN  /\ sent' = event_data
           /\ IF event_data \in TerminalStages
              THEN /\ subscriber' = "closed"
                   /\ progress_streams' =
                        [k \in DOMAIN progress_streams \ {Sid} |->
                            progress_streams[k]]
              ELSE /\ subscriber' = subscriber
                   /\ progress_streams' =
                        [progress_streams EXCEPT ![Sid] = Tail(@)]
    /\ UNCHANGED <<cancelled_sessions, task, research, replies, cancel_at,
                   nCancels, mainVars, aggVars, unitVars, cancel_reply>>

\* generate_progress_stream, lines 170-172: nothing arrived for 30 s, a
\* keepalive is sent and the stream goes on
StreamKeepalive ==
    /\ subscriber = "streaming"
    /\ Sid \in DOMAIN progress_streams
    /\ progress_streams[Sid] = <<>>
    /\ sent' = "keepalive"
    /\ UNCHANGED <<progress_streams, subscriber, cancelled_sessions, task,
                   research, replies, cancel_at, nCancels, mainVars,
                   aggVars, unitVars, cancel_reply>>

CancelClaimCreationStep ==
    \E session_id \in {Sid, UnknownSid} : CancelClaimCreation(session_id)

ResearchDoneStep ==
    \E research_results \in SessionResearchOutcomes :
        ResearchDone(research_results)

ModelDoneStep == \E reply \in ProviderReplies : ModelDone(reply)

NextSession ==
    \/ CreateClaimAsync
    \/ TaskStart
    \/ ResearchDoneStep
    \/ ModelDoneStep
    \/ EvaluationTimeout
    \/ CancelClaimCreationStep
    \/ Subscribe
    \/ StreamNext
    \/ StreamKeepalive

----------------------------------------------------------------------------
(* The claim under verification: the endpoints in any order *)

InitClaim ==
    /\ evidence = <<>>
    /\ model_assessments = <<>>
    /\ panel_results = <<>>
    /\ cache = <<>>
    /\ nextId = 1
    /\ nextVid = 1
    /\ nOps = 0
    /\ last = [op |-> "none"]
    /\ fresh = NoFresh
    /\ newSince = {}
    /\ returned = {}

NoSummary == [model_count |-> -1]

\* a function that has not been applied yet
NotRun == [run |-> FALSE]

InitDivIdle ==
    /\ div_in = NotRun
    /\ div_out = NotRun

CacheKeys == {"key-1", "key-2"}

InitCacheIdle ==
    /\ heap = <<>>
    /\ rec_cache = [k \in CacheKeys |-> NotRun]
    /\ held = {}
    /\ expected = [k \in CacheKeys |-> NotRun]
    /\ got = NotRun
    /\ nCacheOps = 0

InitAgenticIdle ==
    /\ ag_phase = "idle"
    /\ ag_research = <<>>
    /\ ag_pool = <<>>
    /\ ag_running = {}
    /\ ag_started = <<>>
    /\ ag_verdicts = <<>>

MaxCallers == 3

Callers == 1..MaxCallers

InitLimiter ==
    /\ rl_pc = [c \in Callers |-> "idle"]
    /\ rl_calls = <<>>
    /\ rl_holds = {}
    /\ rl_waiters = <<>>
    /\ rl_sleep = [c \in Callers |-> 0]

InitReconcileIdle ==
    /\ rec_in = NotRun
    /\ rec_out = NotRun

InitFnIdle ==
    /\ fn_in = NotRun
    /\ fn_out = NotRun

InitPoolIdle ==
    /\ sp_pool = <<>>
    /\ sp_hashes = {}
    /\ sp_last = NotRun
    /\ sp_added = {}
    /\ nAdds = 0

InitSearchIdle ==
    /\ sw_provider = "configured"
    /\ sw_pc = "idle"
    /\ sw_calls = 0
    /\ sw_returned = <<>>
    /\ sw_emitted = <<>>
    /\ sw_lost = <<>>

InitHistoryIdle ==
    /\ ph_results = <<>>
    /\ ph_runs = <<>>

InitResearcherIdle ==
    /\ cr_max = 0
    /\ cr_pc = "idle"
    /\ cr_turn = 0
    /\ cr_collected = <<>>
    /\ cr_log = <<>>
    /\ cr_started = <<>>
    /\ cr_outcomes = <<>>
    /\ cr_returned = NotRun

InitVerifierIdle ==
    /\ vq_pc = [c \in Verifiers |-> "idle"]
    /\ vq_started = [c \in Verifiers |-> NotRun]
    /\ vq_result = [c \in Verifiers |-> NotRun]

\* the request as create_task has left it: the panel task not yet run, and
\* generate_progress at its first wait for an event
InitPanelStreamIdle ==
    /\ ap_task = [pc |-> "start", model |-> 0]
    /\ ap_queue = <<>>
    /\ ap_emitted = <<>>
    /\ ap_pc = "waiting"
    /\ ap_sent = <<>>
    /\ ap_left = <<>>

InitUnitsIdle ==
    /\ InitDivIdle /\ InitCacheIdle /\ InitAgenticIdle /\ InitLimiter
    /\ InitPanelStreamIdle
    /\ InitVerifierIdle
    /\ InitResearcherIdle
    /\ InitHistoryIdle /\ InitSearchIdle /\ InitPoolIdle
    /\ InitReconcileIdle /\ InitFnIdle

InitAggIdle ==
    /\ agg_models = <<>>
    /\ agg_summary = NoSummary

vars == <<evidence, model_assessments, panel_results, cache, nextId, nextVid,
          nOps, last, fresh, newSince, returned, agg_models, agg_summary,
          progress_streams, cancelled_sessions, task, research, replies,
          subscriber, sent, cancel_at, nCancels, cancel_reply, unitVars>>

Init == InitClaim /\ InitAggIdle /\ InitSession /\ InitUnitsIdle

VerifyStep ==
    \E r \in VerifyRequests, force \in BOOLEAN,
       candidates \in GatherCandidates :
        /\ Verify(r.window, r.providers, force,
                  gather_sources(candidates, r.window))
        /\ UNCHANGED <<aggVars, unitVars, sessVars>>

AddStatcanStep ==
    \E batch \in StatcanBatches :
        AddStatcan(batch) /\ UNCHANGED <<aggVars, unitVars, sessVars>>

PanelRunStep ==
    \E agentic \in BOOLEAN,
       research_results \in ResearchOutcomes,
       provider_replies \in ReplyOutcomes :
        /\ PanelRun(agentic, research_results, provider_replies)
        /\ UNCHANGED <<aggVars, unitVars, sessVars>>

Next == VerifyStep \/ AddStatcanStep \/ PanelRunStep

Spec == Init /\ [][Next]_vars

\* The session alone: the task, the cancel requests and the stream consumer
SpecSession == Init /\ [][NextSession]_vars

----------------------------------------------------------------------------
(* aggregate_panel applied to a list of verdicts *)

\* <<approval confidence, refusal confidence>> of the verdicts, in units of
\* 1/ConfOne
AggConfidences ==
    {<<75000, 25000>>, <<30000, 70000>>, <<65000, 35000>>, <<55000, 45000>>,
     <<50000, 50000>>, <<50004, 49996>>, <<0, 0>>, <<100000, 100000>>,
     <<100000, 0>>}

\* The verdicts the lists are made of: successful ones, the failed verdict of
\* _create_failed_verdict, and a failed verdict that carries confidences
AggVerdicts ==
    {PanelModelVerdict("m", ArgumentWithEvidence(<<>>, c[1]),
                       ArgumentWithEvidence(<<>>, c[2]), FALSE) :
        c \in AggConfidences}
    \cup {_create_failed_verdict("m"),
          PanelModelVerdict("m", ArgumentWithEvidence(<<>>, 90000),
                            ArgumentWithEvidence(<<>>, 10000), TRUE)}

InitAgg ==
    /\ agg_models \in UNION {[1..n -> AggVerdicts] : n \in 0..MaxModels}
    /\ agg_summary = NoSummary

Aggregate ==
    /\ agg_summary = NoSummary
    /\ agg_summary' = aggregate_panel(agg_models)
    /\ UNCHANGED <<agg_models, mainVars, sessVars, unitVars>>

NextAgg == Aggregate

InitAggregate == InitClaim /\ InitAgg /\ InitSession /\ InitUnitsIdle

SpecAgg == InitAggregate /\ [][NextAgg]_vars

----------------------------------------------------------------------------
(* Properties of aggregate_panel *)

NonFailed(models) == {i \in DOMAIN models : ~models[i].failed}

\* The sum, over the verdicts at the given indices, of the normalised
\* confidence of one side
RECURSIVE SumOver(_, _, _)
SumOver(models, indices, side) ==
    IF indices = {} THEN Zero
    ELSE LET i == CHOOSE k \in indices : TRUE
         IN  RatAdd(IF side = "support"
                      THEN normalized_approval(models[i])
                      ELSE normalized_refusal(models[i]),
                    SumOver(models, indices \ {i}, side))

MeanOver(models, indices, side) ==
    RatDivInt(SumOver(models, indices, side), Cardinality(indices))

\* The verdict that goes with two confidences by the thresholds on their
\* distance
VerdictOfDelta(support, refute) ==
    LET delta == RatAbs(RatSub(support, refute))
    IN  IF RatLeq(Rat(3, 10), delta)
        THEN (IF RatLess(refute, support) THEN "true" ELSE "false")
        ELSE IF RatLeq(Rat(1, 10), delta) THEN "mixed"
        ELSE IF RatLess(Zero, delta) THEN "unknown"
        ELSE "mixed"

\* C9: aggregate_panel ignores the verdicts with failed = true: model_count
\* is the number of the others, the two confidences are the averages (to 4
\* decimals) over the others only, and with no verdict or only failed ones
\* the summary is 0.0, 0.0, 0, UNKNOWN.
AggregateIgnoresFailed ==
    agg_summary # NoSummary
    => LET ok == NonFailed(agg_models)
       IN  /\ agg_summary.model_count = Cardinality(ok)
           /\ IF ok = {}
              THEN agg_summary = PanelSummary(Zero, Zero, 0, "unknown")
              ELSE /\ agg_summary.support_confidence
                        = Round4(MeanOver(agg_models, ok, "support"))
                   /\ agg_summary.refute_confidence
                        = Round4(MeanOver(agg_models, ok, "refute"))

\* a summary of a list that holds a successful verdict and a failed verdict
\* with confidences of its own
AggregatedWithFailedVerdict ==
    /\ agg_summary # NoSummary
    /\ NonFailed(agg_models) # {}
    /\ \E i \in DOMAIN agg_models :
          /\ agg_models[i].failed
          /\ agg_models[i].approval_argument.confidence > 0

----------------------------------------------------------------------------
(* Properties of the verification endpoint *)

\* C1: when a verify call follows an earlier verify call with the same
\* (time window, provider list), force is false, and no Evidence was added to
\* the claim in between (the gather of the second call added nothing either),
\* the response has cached = true and the verification_id of the earlier call.
RepeatedVerifyIsCached ==
    (last.op = "verify" /\ ~last.force /\ last.gatherAdded = 0
        /\ last.prevSame # 0)
    => (last.cached /\ last.vid = last.prevSame)

ForceNeverReturnsCached ==
    (last.op = "verify" /\ last.force)
    => (~last.cached /\ ~last.wasReturned /\ last.vid # last.prevSame)

\* a forced verify call whose inputs and evidence are those of an earlier
\* call, so that the cache holds a record under its key
ForcedVerifyOverCachedRecord ==
    /\ last.op = "verify"
    /\ last.force
    /\ last.gatherAdded = 0
    /\ last.prevSame # 0

\* C8: a verify call only appends to the claim's evidence list: the list
\* before the call is a prefix of the list after it.
VerifyOnlyAppends ==
    [][(nOps' = nOps + 1 /\ last'.op = "verify")
        => IsPrefix(evidence, evidence')]_vars

\* a verify call that appended Evidence to a claim that already had some
VerifyAppendedToEvidence ==
    /\ last.op = "verify"
    /\ last.gatherAdded > 0
    /\ Len(evidence) > last.gatherAdded

----------------------------------------------------------------------------
(* Properties of the session *)

\* The number of ModelAssessments the stage of the task at the cancel allows:
\* none before the evaluation of the models, and during it those of the
\* models that had answered and of the one that was being asked
AllowedAssessments(at) ==
    IF at.stage = "evaluating" THEN at.evaluated + 1 ELSE 0

\* C4: once a cancel has been accepted for a session whose task is still
\* running, the claim gets no ModelAssessments beyond the stage the task was
\* in when the cancel arrived.
NoAssessmentsBeyondCancelledStage ==
    cancel_at # NoCancel
    => Len(model_assessments) <= AllowedAssessments(cancel_at)

----------------------------------------------------------------------------
(* Properties of the panel runs and of the claim's evidence list *)

\* C5: in either mode, when a model raises during a panel run (on a claim
\* that has the evidence the original mode requires), the run still returns
\* a PanelResult with one entry per selected model, in selection order, the
\* failing model's entry marked failed.
FailingModelNeverAbortsPanel ==
    (last.op = "panel" /\ last.hadEvidence /\ last.failing # {})
    => /\ ~last.raised
       /\ panel_results # <<>>
       /\ LET models == panel_results[Len(panel_results)].models
          IN  /\ Len(models) = Len(RequestModels)
              /\ \A i \in DOMAIN models :
                    /\ models[i].model = RequestModels[i]
                    /\ (i \in last.failing => models[i].failed)

\* C6: no two Evidence items of the claim share a normalized_url and no two
\* share a content_hash.
NoDuplicateEvidence ==
    \A i, j \in DOMAIN evidence :
        i # j =>
            /\ ~(evidence[i].nurl # EmptyUrl
                    /\ evidence[i].nurl = evidence[j].nurl)
            /\ evidence[i].hash # evidence[j].hash

\* C7: after a completed panel run, every evidence id cited by the claim's
\* ModelAssessments and by the arguments of its stored PanelResults is the id
\* of an Evidence item of the claim.
CitationsAreClaimEvidence ==
    (last.op = "panel" /\ ~last.raised)
    => /\ \A a \in DOMAIN model_assessments :
            \A k \in DOMAIN model_assessments[a].citations :
                model_assessments[a].citations[k] \in EvidenceIds(evidence)
       /\ \A p \in DOMAIN panel_results :
            \A m \in DOMAIN panel_results[p].models :
                LET v == panel_results[p].models[m]
                IN  /\ \A k \in DOMAIN v.approval_argument.evidence_ids :
                        v.approval_argument.evidence_ids[k]
                            \in EvidenceIds(evidence)
                    /\ \A k \in DOMAIN v.refusal_argument.evidence_ids :
                        v.refusal_argument.evidence_ids[k]
                            \in EvidenceIds(evidence)

----------------------------------------------------------------------------
(* Range of the aggregated confidences *)

One == Rat(1, 1)

\* what rounding to 4 decimals can add to the sum of the two confidences
RoundingSlack == Rat(1, 10000)

\* every confidence of the list lies in [0, 1]
ConfidencesInUnitInterval(models) ==
    \A i \in DOMAIN models :
        /\ models[i].approval_argument.confidence \in 0..ConfOne
        /\ models[i].refusal_argument.confidence \in 0..ConfOne

\* C11: for a list of verdicts whose confidences each lie in [0, 1] (pairs
\* that are both 0 or both 1 included), the support_confidence and the
\* refute_confidence of the summary of aggregate_panel each lie in [0, 1] and
\* their sum is at most 1 plus the slack of rounding to 4 decimals.
AggregatedConfidencesInRange ==
    (agg_summary # NoSummary /\ ConfidencesInUnitInterval(agg_models))
    => /\ RatLeq(Zero, agg_summary.support_confidence)
       /\ RatLeq(agg_summary.support_confidence, One)
       /\ RatLeq(Zero, agg_summary.refute_confidence)
       /\ RatLeq(agg_summary.refute_confidence, One)
       /\ RatLeq(RatAdd(agg_summary.support_confidence,
                        agg_summary.refute_confidence),
                 RatAdd(One, RoundingSlack))

\* a summary of a list with a successful verdict whose two confidences are
\* both 1, and one of a list with a successful verdict whose two are both 0
AggregatedBothOne ==
    /\ agg_summary # NoSummary
    /\ \E i \in NonFailed(agg_models) :
          /\ agg_models[i].approval_argument.confidence = ConfOne
          /\ agg_models[i].refusal_argument.confidence = ConfOne
    /\ \E i \in NonFailed(agg_models) :
          /\ agg_models[i].approval_argument.confidence = 0
          /\ agg_models[i].refusal_argument.confidence = 0

----------------------------------------------------------------------------
(* mcp/explorer.py: ExplorerAgent._enforce_domain_diversity, lines 329-349 *)

MaxSources == 4
MaxTarget == 4

\* the domains of the sources handed to the diversity step
Domains == {"same.com", "other.com"}

\* domain_share as an exact fraction <<numerator, denominator>>
DomainShares == {<<0, 1>>, <<1, 4>>, <<1, 2>>, <<1, 1>>, <<-1, 2>>}

\* the part of an ExplorerSource the step looks at; no two sources of a
\* list share a normalized URL (deduplicate_sources, lines 169-198)
DiversitySource(domain, k) == [domain |-> domain, normalized_url |-> k]

SourcesOf(domains) ==
    [k \in DOMAIN domains |-> DiversitySource(domains[k], k)]

Max(a, b) == IF a >= b THEN a ELSE b

\* line 335: max(1, math.floor(target_count * self.domain_share))
max_per_domain(target_count, domain_share) ==
    Max(1, (target_count * domain_share[1]) \div domain_share[2])

\* line 342 with the cap reached one source too late
domain_over(count, cap) == count > cap

\* line 342: the domain has reached its cap
domain_full(count, cap) == count >= cap

\* lines 339-347: the loop over the sources; it stops at target_count
RECURSIVE DiversityLoop(_, _, _, _, _)
DiversityLoop(sources, cap, target_count, domain_counts, selected) ==
    IF sources = <<>> THEN selected
    ELSE LET source == Head(sources)
             count  == domain_counts[source.domain]
         IN  IF domain_full(count, cap)
             THEN DiversityLoop(Tail(sources), cap, target_count,
                                domain_counts, selected)
             ELSE IF Len(selected) + 1 >= target_count
             THEN Append(selected, source)
             ELSE DiversityLoop(Tail(sources), cap, target_count,
                    [domain_counts EXCEPT ![source.domain] = count + 1],
                    Append(selected, source))

_enforce_domain_diversity(sources, target_count, domain_share) ==
    IF sources = <<>> THEN <<>>
    ELSE DiversityLoop(sources, max_per_domain(target_count, domain_share),
                       target_count, [d \in Domains |-> 0], <<>>)

\* lines 295-296 of gather_sources: diversify, then cut to target_count
diversified_final(sources, target_count, domain_share) ==
    LET diversified == _enforce_domain_diversity(sources, target_count,
                                                 domain_share)
    IN  SubSeq(diversified, 1,
               IF Len(diversified) < target_count THEN Len(diversified)
               ELSE target_count)

InitDiv ==
    /\ div_in \in
         {[sources |-> SourcesOf(ds), target_count |-> n, domain_share |-> s] :
            ds \in UNION {[1..k -> Domains] : k \in 0..MaxSources},
            n \in 1..MaxTarget, s \in DomainShares}
    /\ div_out = NotRun

Diversify ==
    /\ div_out = NotRun
    /\ div_out' = [selected |->
                      diversified_final(div_in.sources, div_in.target_count,
                                        div_in.domain_share)]
    /\ UNCHANGED <<div_in, besidesDiv>>

NextDiv == Diversify

InitDiversity ==
    /\ InitClaim /\ InitAggIdle /\ InitSession
    /\ InitDiv /\ InitCacheIdle /\ InitAgenticIdle /\ InitLimiter
    /\ InitPanelStreamIdle
    /\ InitVerifierIdle
    /\ InitResearcherIdle
    /\ InitHistoryIdle /\ InitSearchIdle /\ InitPoolIdle
    /\ InitReconcileIdle /\ InitFnIdle

SpecDiv == InitDiversity /\ [][NextDiv]_vars

\* how many sources of the list are of the domain
CountDomain(sources, domain) ==
    Cardinality({k \in DOMAIN sources : sources[k].domain = domain})

\* C12: for any list of sources, any target count N >= 1 and any domain
\* share s, the output of the diversity step as gather_sources uses it has at
\* most N sources and no domain more than max(1, floor(N*s)) times.
DiversityCapsDomains ==
    div_out # NotRun
    => /\ Len(div_out.selected) <= div_in.target_count
       /\ \A d \in Domains :
            CountDomain(div_out.selected, d)
              <= Max(1, (div_in.target_count * div_in.domain_share[1])
                          \div div_in.domain_share[2])

\* an output from which sources of a domain were left out at a cap of 2,
\* with sources of another domain after them kept
DomainCappedAtTwo ==
    /\ div_out # NotRun
    /\ \E d \in Domains :
          /\ CountDomain(div_out.selected, d) = 2
          /\ CountDomain(div_in.sources, d) > 2
          /\ \E e \in Domains \ {d} : CountDomain(div_out.selected, e) > 0
    /\ Len(div_out.selected) < div_in.target_count

----------------------------------------------------------------------------
(* The evidence of a verification record *)

\* the Evidence of the claim that a window [start, end] admits: no
\* publication date, or start <= published_at <= end with an absent bound
\* imposing nothing
AdmittedBy(window) ==
    {i \in DOMAIN evidence :
        \/ evidence[i].pub = NoTime
        \/ /\ (window.start = NoTime \/ window.start <= evidence[i].pub)
           /\ (window.end = NoTime \/ evidence[i].pub <= window.end)}

\* C13: the evidence_ids of the verification record that a verify call
\* returns are exactly the ids of the claim's Evidence whose published_at is
\* null or lies in the requested window, an absent bound imposing no
\* constraint.
RecordHoldsEvidenceInWindow ==
    last.op = "verify"
    => LET admitted == AdmittedBy(last.inputs[1])
       IN  /\ {last.evidence_ids[k] : k \in DOMAIN last.evidence_ids}
                = {evidence[i].id : i \in admitted}
           /\ Len(last.evidence_ids) = Cardinality(admitted)

\* a verify call with a start bound over a claim that holds Evidence dated
\* before the bound and Evidence dated at or after it
VerifiedWithStartBound ==
    /\ last.op = "verify"
    /\ last.inputs[1].start # NoTime
    /\ \E i \in DOMAIN evidence :
          evidence[i].pub # NoTime /\ evidence[i].pub < last.inputs[1].start
    /\ \E i \in DOMAIN evidence :
          evidence[i].pub # NoTime /\ evidence[i].pub >= last.inputs[1].start

----------------------------------------------------------------------------
(* verification.py: the cache of verification records, lines 18-82, with    *)
(* the objects a VerificationRecord refers to (models.py:226-236).  A       *)
(* record object holds its verdict and references to its providers list,    *)
(* its evidence_ids list and its TimeWindow; BaseModel.model_copy() without *)
(* deep=True makes a new record object that refers to the same three.       *)

MaxCacheOps == 4
MaxListLen == 2

\* a VerificationRecord object: the nested fields are object ids of the heap
RecordObject(verdict, providers, evidence_ids, time_window) ==
    [verdict |-> verdict, providers |-> providers,
     evidence_ids |-> evidence_ids, time_window |-> time_window]

\* record.model_copy(): a new object with the same field values, the
\* references included
model_copy(record) ==
    RecordObject(record.verdict, record.providers, record.evidence_ids,
                 record.time_window)

\* what a record says, its nested objects read through
Content(record, h) ==
    [verdict |-> record.verdict, providers |-> h[record.providers],
     evidence_ids |-> h[record.evidence_ids],
     time_window |-> h[record.time_window]]

\* store_verification(cache_key, record) with a record the caller has just
\* built (create_verification_record) and keeps
StoreRecord(cache_key, verdict) ==
    LET n == Len(heap)
        record == RecordObject(verdict, n + 1, n + 2, n + 3)
        h == heap \o <<DEFAULT_PROVIDERS, <<1>>, TimeWindow(NoTime, 1)>>
    IN  /\ nCacheOps < MaxCacheOps
        /\ nCacheOps' = nCacheOps + 1
        /\ heap' = h
        /\ rec_cache' = [rec_cache EXCEPT ![cache_key] = model_copy(record)]
        /\ held' = held \cup {record}
        /\ expected' = [expected EXCEPT ![cache_key] = Content(record, h)]
        /\ UNCHANGED got

\* get_cached_verification(cache_key) on a key that holds a record
GetRecord(cache_key) ==
    /\ nCacheOps < MaxCacheOps
    /\ rec_cache[cache_key] # NotRun
    /\ nCacheOps' = nCacheOps + 1
    /\ LET record == model_copy(rec_cache[cache_key])
       IN  /\ held' = held \cup {record}
           /\ got' = [key |-> cache_key, content |-> Content(record, heap),
                       stored |-> expected[cache_key]]
    /\ UNCHANGED <<heap, rec_cache, expected>>

\* a caller assigns a field of a record object it holds: the verdict, or a
\* new list as evidence_ids
AssignField(record) ==
    /\ nCacheOps < MaxCacheOps
    /\ nCacheOps' = nCacheOps + 1
    /\ \/ /\ held' = (held \ {record})
                       \cup {[record EXCEPT !.verdict = "refutes"]}
          /\ UNCHANGED heap
       \/ /\ heap' = Append(heap, <<>>)
          /\ held' = (held \ {record})
                       \cup {[record EXCEPT !.evidence_ids = Len(heap) + 1]}
    /\ UNCHANGED <<rec_cache, expected, got>>

\* a caller changes a nested object of a record it holds in place:
\* record.evidence_ids.append(..), record.providers.append(..) or
\* record.time_window.start = ..
MutateNested(record) ==
    /\ nCacheOps < MaxCacheOps
    /\ nCacheOps' = nCacheOps + 1
    /\ \/ /\ Len(heap[record.evidence_ids]) < MaxListLen
          /\ heap' = [heap EXCEPT ![record.evidence_ids] = Append(@, 2)]
       \/ /\ Len(heap[record.providers]) <= Len(DEFAULT_PROVIDERS)
          /\ heap' = [heap EXCEPT ![record.providers] = Append(@, "grok-3")]
       \/ /\ heap[record.time_window].start = NoTime
          /\ heap' = [heap EXCEPT ![record.time_window].start = 1]
    /\ UNCHANGED <<rec_cache, held, expected, got>>

StoreRecordStep ==
    /\ \E k \in CacheKeys, v \in {"supports", "uncertain"} : StoreRecord(k, v)
    /\ UNCHANGED besidesCache

GetRecordStep ==
    /\ \E k \in CacheKeys : GetRecord(k)
    /\ UNCHANGED besidesCache

AssignFieldStep ==
    /\ \E record \in held : AssignField(record)
    /\ UNCHANGED besidesCache

MutateNestedStep ==
    /\ \E record \in held : MutateNested(record)
    /\ UNCHANGED besidesCache

NextCache ==
    StoreRecordStep \/ GetRecordStep \/ AssignFieldStep \/ MutateNestedStep

InitCache == InitClaim /\ InitAggIdle /\ InitSession /\ InitUnitsIdle

SpecCache == InitCache /\ [][NextCache]_vars

\* C14: the cache returns deep copies: whatever the callers do to the
\* records they got from get_cached_verification (nested evidence_ids,
\* providers and time_window included) or to a record after they passed it
\* to store_verification, a later get_cached_verification of the key returns
\* the record as it was stored.
GetReturnsRecordAsStored ==
    got # NotRun => got.content = got.stored

----------------------------------------------------------------------------
(* panel/run_panel.py: run_agentic_panel_evaluation, lines 497-672, with    *)
(* the researchers as the concurrent tasks asyncio.gather runs (line 548)   *)
(* and adapter.evaluate as a call the loop over the models awaits (624)     *)

MaxAgents == 3

\* selected_models of the run
AgenticModels == SubSeq(DEFAULT_PANEL_MODELS, 1, MaxAgents)

\* what conduct_research of one researcher comes to: a list of sources, or
\* an exception
ResearcherResults == {<<>>, <<ResR1>>}

\* asyncio.wait(.., return_when=FIRST_COMPLETED) in the place of gather
first_completed(tasks) == \E i \in DOMAIN tasks : tasks[i].state # "running"

\* line 548: asyncio.gather(*research_tasks, return_exceptions=True) is done
\* when every task has returned or raised
all_completed(tasks) == \A i \in DOMAIN tasks : tasks[i].state # "running"

\* lines 551-555: the result of a researcher, [] for one that raised
ResultLists(tasks) ==
    [i \in DOMAIN tasks |->
        IF tasks[i].state = "returned" THEN tasks[i].sources ELSE <<>>]

\* lines 520-548: the researchers are created and their tasks start together
StartResearch ==
    /\ ag_phase = "idle"
    /\ ag_phase' = "research"
    /\ ag_research' = [i \in DOMAIN AgenticModels |-> [state |-> "running"]]
    /\ UNCHANGED <<ag_pool, ag_running, ag_started, ag_verdicts>>

\* conduct_research of one researcher returns
ResearcherReturns(i, sources) ==
    /\ ag_phase = "research"
    /\ ag_research[i].state = "running"
    /\ ag_research' = [ag_research EXCEPT
                          ![i] = [state |-> "returned", sources |-> sources]]
    /\ UNCHANGED <<ag_phase, ag_pool, ag_running, ag_started, ag_verdicts>>

\* conduct_research of one researcher raises
ResearcherRaises(i) ==
    /\ ag_phase = "research"
    /\ ag_research[i].state = "running"
    /\ ag_research' = [ag_research EXCEPT ![i] = [state |-> "raised"]]
    /\ UNCHANGED <<ag_phase, ag_pool, ag_running, ag_started, ag_verdicts>>

\* lines 548-624: gather returns, the results go into the pool in the order
\* of the models, and the loop over the models awaits the first evaluate
CollectAndEvaluate ==
    /\ ag_phase = "research"
    /\ all_completed(ag_research)
    /\ ag_phase' = "verdicts"
    /\ ag_pool' = CollectResearch(ResultLists(ag_research), <<>>, 1).pool
    /\ ag_running' = {1}
    /\ ag_started' = <<1>>
    /\ UNCHANGED <<ag_research, ag_verdicts>>

\* lines 622-641: the evaluate the loop awaits ends (a model that raises gets
\* a failed verdict) and the loop goes on to the next model, if any
EvaluateEnds(reply) ==
    /\ ag_phase = "verdicts"
    /\ \E i \in ag_running :
          LET prompt == build_normalized_prompt(ag_pool,
                                                TimeWindow(NoTime, NoTime))
              verdict == IF reply = "raise"
                         THEN _create_failed_verdict(AgenticModels[i])
                         ELSE evaluate(AgenticModels[i], prompt,
                                       EvidenceLookup(ag_pool))
          IN  /\ ag_verdicts' = Append(ag_verdicts, verdict)
              /\ IF i < Len(AgenticModels)
                 THEN /\ ag_running' = {i + 1}
                      /\ ag_started' = Append(ag_started, i + 1)
                      /\ UNCHANGED ag_phase
                 ELSE /\ ag_running' = {}
                      /\ ag_phase' = "done"
                      /\ UNCHANGED ag_started
    /\ UNCHANGED <<ag_research, ag_pool>>

StartResearchStep == StartResearch /\ UNCHANGED besidesAgentic

ResearcherReturnsStep ==
    /\ \E i \in DOMAIN AgenticModels, sources \in ResearcherResults :
          ResearcherReturns(i, sources)
    /\ UNCHANGED besidesAgentic

ResearcherRaisesStep ==
    /\ \E i \in DOMAIN AgenticModels : ResearcherRaises(i)
    /\ UNCHANGED besidesAgentic

CollectAndEvaluateStep == CollectAndEvaluate /\ UNCHANGED besidesAgentic

EvaluateEndsStep ==
    /\ \E reply \in ProviderReplies : EvaluateEnds(reply)
    /\ UNCHANGED besidesAgentic

NextAgentic ==
    \/ StartResearchStep
    \/ ResearcherReturnsStep
    \/ ResearcherRaisesStep
    \/ CollectAndEvaluateStep
    \/ EvaluateEndsStep

InitAgentic == InitClaim /\ InitAggIdle /\ InitSession /\ InitUnitsIdle

SpecAgentic == InitAgentic /\ [][NextAgentic]_vars

\* C15: in an agentic panel run no evidence is in the shared pool and no
\* adapter.evaluate has started while a researcher has not completed
\* (returned or raised), and the evaluations run one after another in the
\* order of the models: never two at a time, the k-th to start is the k-th
\* model, and each starts only when the verdicts of the ones before are in.
ResearchJoinsBeforeVerdicts ==
    /\ (ag_pool # <<>> \/ ag_started # <<>>)
          => \A i \in DOMAIN ag_research : ag_research[i].state # "running"
    /\ Cardinality(ag_running) <= 1
    /\ \A k \in DOMAIN ag_started : ag_started[k] = k
    /\ \A i \in ag_running : Len(ag_verdicts) = i - 1
    /\ \A k \in DOMAIN ag_verdicts : ag_verdicts[k].model = AgenticModels[k]

\* the second evaluate in progress over a pool that holds evidence, after a
\* run in which one researcher raised and another returned sources
SecondEvaluateAfterMixedResearch ==
    /\ ag_running = {2}
    /\ ag_pool # <<>>
    /\ \E i \in DOMAIN ag_research : ag_research[i].state = "raised"
    /\ \E i \in DOMAIN ag_research : ag_research[i].state = "returned"

----------------------------------------------------------------------------
(* Properties of the progress stream and of the cancel request *)

\* C16: the progress stream of a session yields every queued event in queue
\* order up to and including the first one whose stage is complete, error
\* or cancelled, then ends and removes the session from the registry; it
\* ends on no event of another stage, a keepalive included.  As a property
\* of every step taken while the stream is open: the step leaves the stream
\* alone and at most appends to the queue, or the queue is empty and a
\* keepalive is sent with the stream going on, or the head of the queue is
\* sent, and the stream ends with the session removed exactly when the head
\* has one of the three stages, and otherwise goes on with the rest.
StreamYieldsQueueInOrder ==
    [][subscriber = "streaming"
       => /\ Sid \in DOMAIN progress_streams
          /\ LET queue == progress_streams[Sid]
             IN  \/ /\ UNCHANGED <<subscriber, sent>>
                    /\ Sid \in DOMAIN progress_streams'
                    /\ IsPrefix(queue, progress_streams'[Sid])
                 \/ /\ queue = <<>>
                    /\ sent' = "keepalive"
                    /\ subscriber' = "streaming"
                    /\ UNCHANGED progress_streams
                 \/ /\ queue # <<>>
                    /\ sent' = Head(queue)
                    /\ IF Head(queue) \in {"complete", "error", "cancelled"}
                       THEN /\ subscriber' = "closed"
                            /\ Sid \notin DOMAIN progress_streams'
                       ELSE /\ subscriber' = "streaming"
                            /\ progress_streams'[Sid] = Tail(queue)]_vars

\* a stream that has ended on the complete event of a task that ran to its
\* end, the session removed from the registry
StreamEndedOnComplete ==
    /\ subscriber = "closed"
    /\ sent = "complete"
    /\ task = "ended"
    /\ Len(replies) = Len(DEFAULT_PANEL_MODELS)
    /\ Sid \notin DOMAIN progress_streams

\* C17: a cancel request for a registered session adds the id to the
\* cancelled set and puts one event of stage cancelled on the queue of that
\* session; for an unknown session it is answered 404 and changes neither
\* the cancelled set nor any queue.
CancelMarksRegisteredSessionOnly ==
    [][/\ nCancels' = nCancels + 1
          => LET s == cancel_reply'.session_id
             IN  /\ cancel_reply'.status = 200
                 /\ s \in DOMAIN progress_streams
                 /\ cancelled_sessions' = cancelled_sessions \cup {s}
                 /\ DOMAIN progress_streams' = DOMAIN progress_streams
                 /\ \A k \in DOMAIN progress_streams :
                       progress_streams'[k]
                         = IF k = s THEN Append(progress_streams[k], "cancelled")
                           ELSE progress_streams[k]
       /\ cancel_reply' # cancel_reply
          => /\ cancel_reply'.status = 404
                  <=> cancel_reply'.session_id \notin DOMAIN progress_streams
             /\ cancel_reply'.status = 404
                  => UNCHANGED <<cancelled_sessions, progress_streams>>]_vars

\* a cancel request for an unknown session answered 404 while a registered
\* session, cancelled before, has events waiting on its queue
UnknownSessionCancelRefused ==
    /\ cancel_reply = [status |-> 404, session_id |-> UnknownSid]
    /\ Sid \in DOMAIN progress_streams
    /\ progress_streams[Sid] # <<>>
    /\ Sid \in cancelled_sessions
    /\ nCancels > 0

----------------------------------------------------------------------------
(* mcp/web_search.py: RateLimiter, lines 30-55, called by concurrent tasks  *)
(* of one event loop.  Time goes in ticks; a recorded call is kept as the   *)
(* number of ticks since it was made.                                       *)

\* RateLimiter(max_calls=2, time_window=1.0) of BraveGroundingAPI (line 70),
\* the window in ticks
max_calls == 2
time_window == 2

\* the 0.1 s buffer of line 49, which rounds up to one tick
SleepBuffer == 1

\* line 45: the calls that are still inside the window
recent_calls(calls) == SelectSeq(calls, LAMBDA age : age < time_window)

\* asyncio.Lock: locked while a frame is inside the "async with" block
locked == rl_holds # {}

\* a task calls acquire and asks for the lock (line 42)
CallAcquire(c) ==
    /\ rl_pc[c] = "idle"
    /\ rl_pc' = [rl_pc EXCEPT ![c] = "waiting"]
    /\ rl_waiters' = Append(rl_waiters, c)
    /\ UNCHANGED <<rl_calls, rl_holds, rl_sleep>>

\* lines 42-55: the frame of the first waiter gets the lock, drops the old
\* calls, and either goes to sleep inside the block or records the call and
\* leaves the block; the lock is released when the outermost block of the
\* task is left (a nested acquire that returned lets the outer one return)
EnterLock(c) ==
    /\ rl_pc[c] = "waiting"
    /\ ~locked
    /\ rl_waiters # <<>> /\ Head(rl_waiters) = c
    /\ rl_waiters' = Tail(rl_waiters)
    /\ LET calls == recent_calls(rl_calls)
       IN  IF Len(calls) >= max_calls
           THEN \* line 49: sleep_time, positive as calls[0] is inside the
                \* window
                /\ rl_calls' = calls
                /\ rl_sleep' = [rl_sleep EXCEPT
                                  ![c] = time_window - calls[1] + SleepBuffer]
                /\ rl_pc' = [rl_pc EXCEPT ![c] = "sleeping"]
                /\ rl_holds' = rl_holds \cup {c}
           ELSE /\ rl_calls' = Append(calls, 0)
                /\ rl_pc' = [rl_pc EXCEPT ![c] = "returned"]
                /\ rl_holds' = rl_holds \ {c}
                /\ UNCHANGED rl_sleep

\* lines 50-51: the sleep is over and the frame, still inside the block,
\* calls self.acquire() again, which asks for the lock
WakeAndRetry(c) ==
    /\ rl_pc[c] = "sleeping"
    /\ rl_sleep[c] = 0
    /\ rl_pc' = [rl_pc EXCEPT ![c] = "waiting"]
    /\ rl_waiters' = Append(rl_waiters, c)
    /\ UNCHANGED <<rl_calls, rl_holds, rl_sleep>>

\* the clock of the event loop advances by one tick
Tick ==
    /\ rl_calls' = [k \in DOMAIN rl_calls |->
                       IF rl_calls[k] < time_window THEN rl_calls[k] + 1
                       ELSE rl_calls[k]]
    /\ rl_sleep' = [c \in Callers |->
                       IF rl_sleep[c] > 0 THEN rl_sleep[c] - 1 ELSE 0]
    /\ UNCHANGED <<rl_pc, rl_holds, rl_waiters>>

CallAcquireStep ==
    (\E c \in Callers : CallAcquire(c)) /\ UNCHANGED besidesLimiter

EnterLockStep ==
    (\E c \in Callers : EnterLock(c)) /\ UNCHANGED besidesLimiter

WakeAndRetryStep ==
    (\E c \in Callers : WakeAndRetry(c)) /\ UNCHANGED besidesLimiter

TickStep == Tick /\ UNCHANGED besidesLimiter

NextLimiter ==
    CallAcquireStep \/ EnterLockStep \/ WakeAndRetryStep \/ TickStep

InitLimiterRun == InitClaim /\ InitAggIdle /\ InitSession /\ InitUnitsIdle

\* The event loop runs every task that can run, and time goes on; tasks
\* need not call acquire at all.
SpecLimiter ==
    /\ InitLimiterRun
    /\ [][NextLimiter]_vars
    /\ WF_vars(EnterLockStep)
    /\ WF_vars(WakeAndRetryStep)
    /\ WF_vars(TickStep)

\* C18: every call to RateLimiter.acquire eventually returns, also the call
\* of a caller that arrives when max_calls acquisitions are recorded inside
\* the window, and also with several callers waiting.
EveryAcquireReturns ==
    \A c \in Callers : (rl_pc[c] # "idle") ~> (rl_pc[c] = "returned")

----------------------------------------------------------------------------
(* panel/run_panel.py: reconcile_complementary_verdicts, lines 1386-1432,   *)
(* with detect_complementary_claims (1354-1383).  A claim text is the       *)
(* sequence of its words.                                                   *)

TxtRising    == <<"Violent", "crime", "in", "Canada", "is", "rising">>
TxtDeclining == <<"violent", "crime", "in", "canada", "is", "declining">>
TxtHigher    == <<"violent", "crime", "in", "canada", "is", "higher">>
TxtJobs      == <<"unemployment", "is", "rising">>

ReconcileTexts == {TxtRising, TxtDeclining, TxtHigher, TxtJobs}

\* str.lower on a word
LowerWord(w) ==
    CASE w = "Violent" -> "violent"
      [] w = "Canada"  -> "canada"
      [] OTHER         -> w

LowerText(text) == [k \in DOMAIN text |-> LowerWord(text[k])]

\* len of a word
WordLen(w) ==
    CASE w \in {"in", "is"} -> 2
      [] w = "crime" -> 5
      [] w \in {"canada", "Canada", "rising", "higher"} -> 6
      [] w \in {"violent", "Violent"} -> 7
      [] w = "declining" -> 9
      [] w = "unemployment" -> 12

\* len of the text: its words and the blanks between them
RECURSIVE TextLen(_)
TextLen(text) ==
    IF text = <<>> THEN 0
    ELSE IF Len(text) = 1 THEN WordLen(text[1])
    ELSE WordLen(Head(text)) + 1 + TextLen(Tail(text))

\* the words in which a direction token of lines 1304-1305 occurs
UpCueWords == {"rising", "higher"}
DownCueWords == {"declining"}

\* lines 1301-1310
_infer_claim_direction(text) ==
    LET t == LowerText(text)
        up == \E k \in DOMAIN t : t[k] \in UpCueWords
        down == \E k \in DOMAIN t : t[k] \in DownCueWords
    IN  IF up /\ ~down THEN "up" ELSE IF down /\ ~up THEN "down" ELSE "none"

\* the words the patterns of lines 1340-1345 take out (case ignored)
RisingWords == {"rising", "increasing", "growing", "up"}
DecliningWords == {"declining", "decreasing", "falling", "down"}
Auxiliaries == {"is", "was", "were"}

\* an auxiliary followed by a direction word is removed with it
RECURSIVE RemoveAuxPairs(_, _)
RemoveAuxPairs(text, words) ==
    IF text = <<>> THEN <<>>
    ELSE IF /\ Len(text) >= 2
            /\ LowerWord(text[1]) \in Auxiliaries
            /\ LowerWord(text[2]) \in words
    THEN RemoveAuxPairs(Tail(Tail(text)), words)
    ELSE IF /\ Len(text) >= 3
            /\ LowerWord(text[1]) \in {"has", "have"}
            /\ LowerWord(text[2]) = "been"
            /\ LowerWord(text[3]) \in words
    THEN RemoveAuxPairs(Tail(Tail(Tail(text))), words)
    ELSE <<Head(text)>> \o RemoveAuxPairs(Tail(text), words)

RemoveWords(text, words) ==
    SelectSeq(text, LAMBDA w : LowerWord(w) \notin words)

\* lines 1333-1351: the direction phrases removed, the original kept when
\* too little is left
_neutralize_claim_text(text) ==
    LET t == RemoveWords(
                 RemoveWords(
                     RemoveAuxPairs(RemoveAuxPairs(text, RisingWords),
                                    DecliningWords),
                     RisingWords),
                 DecliningWords)
    IN  IF TextLen(t) >= 10 /\ 2 * TextLen(t) >= TextLen(text)
        THEN t ELSE text

WordSet(text) == {text[k] : k \in DOMAIN text}

Min(a, b) == IF a <= b THEN a ELSE b

\* lines 1354-1383
detect_complementary_claims(claim1_text, claim2_text) ==
    LET t1 == LowerText(claim1_text)
        t2 == LowerText(claim2_text)
        words1 == WordSet(LowerText(_neutralize_claim_text(t1)))
        words2 == WordSet(LowerText(_neutralize_claim_text(t2)))
        overlap == Cardinality(words1 \cap words2)
        fewer == Min(Cardinality(words1), Cardinality(words2))
        dir1 == _infer_claim_direction(t1)
        dir2 == _infer_claim_direction(t2)
    IN  IF overlap < 2 \/ 10 * overlap < 6 * fewer THEN FALSE
        ELSE dir1 # "none" /\ dir2 # "none" /\ dir1 # dir2

\* lines 1425-1432 with the verdict left as it is
_keep_verdict(verdict) == verdict

\* lines 1425-1432
_invert_verdict(verdict) ==
    IF verdict = "true" THEN "false"
    ELSE IF verdict = "false" THEN "true"
    ELSE verdict

\* lines 1403-1409, 1413-1419: the summary with its confidences swapped
inverted_summary(summary) ==
    PanelSummary(summary.refute_confidence, summary.support_confidence,
                 summary.model_count, _invert_verdict(summary.verdict))

\* lines 1386-1422
reconcile_complementary_verdicts(claim1_text, summary1, claim2_text, summary2) ==
    IF ~detect_complementary_claims(claim1_text, claim2_text)
    THEN <<summary1, summary2>>
    ELSE IF /\ RatLess(Rat(6, 10), summary1.support_confidence)
            /\ RatLess(Rat(6, 10), summary2.support_confidence)
    THEN IF RatLeq(summary2.support_confidence, summary1.support_confidence)
         THEN <<summary1, inverted_summary(summary2)>>
         ELSE <<inverted_summary(summary1), summary2>>
    ELSE <<summary1, summary2>>

\* the summaries handed to it
ReconcileSummaries ==
    {PanelSummary(Conf(70000), Conf(30000), 2, "true"),
     PanelSummary(Conf(90000), Conf(10000), 3, "true"),
     PanelSummary(Conf(60000), Conf(40000), 2, "mixed"),
     PanelSummary(Conf(65000), Conf(35000), 2, "mixed"),
     PanelSummary(Conf(61000), Conf(20000), 1, "unknown"),
     PanelSummary(Conf(80000), Conf(10000), 2, "false"),
     PanelSummary(Conf(30000), Conf(70000), 2, "false")}

InitReconcile ==
    /\ rec_in \in [claim1_text : ReconcileTexts, summary1 : ReconcileSummaries,
                   claim2_text : ReconcileTexts, summary2 : ReconcileSummaries]
    /\ rec_out = NotRun

Reconcile ==
    /\ rec_out = NotRun
    /\ rec_out' = [summaries |->
                      reconcile_complementary_verdicts(
                          rec_in.claim1_text, rec_in.summary1,
                          rec_in.claim2_text, rec_in.summary2)]
    /\ UNCHANGED <<rec_in, besidesReconcile>>

NextReconcile == Reconcile

InitReconciliation ==
    /\ InitClaim /\ InitAggIdle /\ InitSession
    /\ InitDivIdle /\ InitCacheIdle /\ InitAgenticIdle /\ InitLimiter
    /\ InitPanelStreamIdle
    /\ InitVerifierIdle
    /\ InitResearcherIdle
    /\ InitHistoryIdle /\ InitSearchIdle /\ InitPoolIdle
    /\ InitFnIdle
    /\ InitReconcile

SpecReconcile == InitReconciliation /\ [][NextReconcile]_vars

\* a summary with support and refute swapped and the verdict flipped: TRUE
\* to FALSE, FALSE to TRUE, MIXED and UNKNOWN as they are
Flipped(summary) ==
    [support_confidence |-> summary.refute_confidence,
     refute_confidence  |-> summary.support_confidence,
     model_count        |-> summary.model_count,
     verdict |-> CASE summary.verdict = "true"  -> "false"
                   [] summary.verdict = "false" -> "true"
                   [] OTHER -> summary.verdict]

HighSupport(summary) == RatLess(Rat(6, 10), summary.support_confidence)

\* C19: for two complementary claims whose summaries both have
\* support_confidence > 0.6, reconcile_complementary_verdicts returns the
\* summary of weaker support with support and refute swapped and its verdict
\* flipped, and the one of stronger support unchanged; for claims that are
\* not complementary, or with at most one support above 0.6, it returns
\* both summaries unchanged.
ReconcileInvertsWeakerSummary ==
    rec_out # NotRun
    => LET s1 == rec_in.summary1
           s2 == rec_in.summary2
           out == rec_out.summaries
       IN  IF /\ detect_complementary_claims(rec_in.claim1_text,
                                             rec_in.claim2_text)
              /\ HighSupport(s1) /\ HighSupport(s2)
           THEN \/ /\ RatLeq(s2.support_confidence, s1.support_confidence)
                   /\ out = <<s1, Flipped(s2)>>
                \/ /\ RatLeq(s1.support_confidence, s2.support_confidence)
                   /\ out = <<Flipped(s1), s2>>
           ELSE out = <<s1, s2>>

\* two complementary claims, both with support above 0.6, the first one the
\* weaker and TRUE before the reconciliation
ReconciledFirstOfTwoSupported ==
    /\ rec_out # NotRun
    /\ detect_complementary_claims(rec_in.claim1_text, rec_in.claim2_text)
    /\ HighSupport(rec_in.summary1) /\ HighSupport(rec_in.summary2)
    /\ RatLess(rec_in.summary1.support_confidence,
               rec_in.summary2.support_confidence)
    /\ rec_in.summary1.verdict = "true"
    /\ rec_out.summaries[1].verdict = "false"

----------------------------------------------------------------------------
(* panel/run_panel.py: the evidence array of build_normalized_prompt,       *)
(* lines 83-115                                                             *)

\* C20: the evidence array of every normalized prompt names no Evidence
\* twice and is sorted by published_at ascending, with every item whose
\* published_at is null after every dated item.
PromptEvidenceSortedNullsLast ==
    \A p \in DOMAIN panel_results :
        LET ev == panel_results[p].prompt.evidence
        IN  \A i, j \in DOMAIN ev :
                i < j =>
                    /\ ev[i].id # ev[j].id
                    /\ ev[i].published_at = NoTime
                           => ev[j].published_at = NoTime
                    /\ (ev[i].published_at # NoTime /\ ev[j].published_at # NoTime)
                           => ev[i].published_at <= ev[j].published_at

----------------------------------------------------------------------------
(* verification.py: build_cache_key and compute_sources_hash as functions   *)
(* of their arguments, lines 28-69                                          *)

MaxKeyEvidence == 2

TextLower  == <<"c", "r", "i", "m", "e", " ", "i", "s", " ", "u", "p">>
TextTabbed == <<"C", "r", "i", "m", "e", "\t", " ", "i", "s", " ", "U", "P">>
TextJoined == <<"c", "r", "i", "m", "e", "i", "s", "u", "p">>

KeyTexts == {ClaimText, TextLower, TextTabbed, TextJoined}

KeyWindows == {TimeWindow(NoTime, NoTime), TimeWindow(1, NoTime)}

KeyProviders ==
    {<<>>, <<"gpt-5">>, <<"gpt-5", "claude-sonnet-4-20250514">>,
     <<"claude-sonnet-4-20250514", "gpt-5">>}

KeyEvidence(id) ==
    MkEvidence(id, IF id = 1 THEN UrlAX ELSE UrlBY, "", "Alpha",
               IF id = 2 THEN NoTime ELSE id, EmptyUrl, NoHash)

\* the lists that hold each of the Evidence items once, and the empty list
KeyEvidenceLists ==
    {<<>>} \cup
    {[k \in 1..MaxKeyEvidence |-> KeyEvidence(f[k])] :
        f \in {g \in [1..MaxKeyEvidence -> 1..MaxKeyEvidence] :
                  \A i, j \in 1..MaxKeyEvidence : g[i] = g[j] => i = j}}

KeyArguments ==
    [claim_text : KeyTexts, time_window : KeyWindows,
     providers : KeyProviders, evidence : KeyEvidenceLists]

\* main.py:697-702: the key of a verify call
cache_key_of(a) ==
    build_cache_key(a.claim_text, a.time_window, a.providers,
                    compute_sources_hash(a.evidence))

InitKeys ==
    /\ fn_in \in [first : KeyArguments, second : KeyArguments]
    /\ fn_out = NotRun

ComputeKeys ==
    /\ fn_out = NotRun
    /\ fn_out' = [keys |-> <<cache_key_of(fn_in.first),
                             cache_key_of(fn_in.second)>>,
                  hashes |-> <<compute_sources_hash(fn_in.first.evidence),
                               compute_sources_hash(fn_in.second.evidence)>>]
    /\ UNCHANGED <<fn_in, besidesFn>>

NextKeys == ComputeKeys

InitCacheKeys ==
    /\ InitClaim /\ InitAggIdle /\ InitSession
    /\ InitDivIdle /\ InitCacheIdle /\ InitAgenticIdle /\ InitLimiter
    /\ InitPanelStreamIdle
    /\ InitVerifierIdle
    /\ InitResearcherIdle
    /\ InitHistoryIdle /\ InitSearchIdle /\ InitPoolIdle
    /\ InitReconcileIdle
    /\ InitKeys

SpecKeys == InitCacheKeys /\ [][NextKeys]_vars

\* a text with every letter in lower case and every run of whitespace
\* replaced by one blank
RECURSIVE FoldText(_, _)
FoldText(text, after_space) ==
    IF text = <<>> THEN <<>>
    ELSE IF Head(text) \in {" ", "\t", "\n"}
    THEN (IF after_space THEN <<>> ELSE <<" ">>) \o FoldText(Tail(text), TRUE)
    ELSE <<LowerChar(Head(text))>> \o FoldText(Tail(text), FALSE)

SameButCaseAndSpaces(s, t) == FoldText(s, FALSE) = FoldText(t, FALSE)

Occurrences(x, seq) == Cardinality({k \in DOMAIN seq : seq[k] = x})

SameButOrder(s, t) ==
    /\ Len(s) = Len(t)
    /\ \A k \in DOMAIN s : Occurrences(s[k], s) = Occurrences(s[k], t)

\* C21: two computations of the cache key agree whenever their claim texts
\* differ only in letter case or in the length of whitespace runs, their
\* windows are equal, their provider lists differ only in order and their
\* Evidence lists differ only in order; any reordering of the same Evidence
\* gives the same sources hash.
CacheKeyDeterministic ==
    fn_out # NotRun
    => LET a == fn_in.first
           b == fn_in.second
       IN  /\ SameButOrder(a.evidence, b.evidence)
                => fn_out.hashes[1] = fn_out.hashes[2]
           /\ (/\ SameButCaseAndSpaces(a.claim_text, b.claim_text)
               /\ a.time_window = b.time_window
               /\ SameButOrder(a.providers, b.providers)
               /\ SameButOrder(a.evidence, b.evidence))
                => fn_out.keys[1] = fn_out.keys[2]

\* two calls that differ in case, in whitespace, in the order of the
\* providers and in the order of the Evidence, and get one key
SameKeyForReorderedInputs ==
    /\ fn_out # NotRun
    /\ fn_in.first.claim_text = ClaimText
    /\ fn_in.second.claim_text = TextTabbed
    /\ fn_in.first.providers # fn_in.second.providers
    /\ Len(fn_in.first.providers) = 2
    /\ fn_in.first.evidence # fn_in.second.evidence
    /\ Len(fn_in.first.evidence) = MaxKeyEvidence
    /\ fn_out.keys[1] = fn_out.keys[2]

----------------------------------------------------------------------------
(* mcp/explorer.py: normalize_url on the text of a URL, lines 388-407, with *)
(* urlparse and urlunparse of urllib.parse.  A URL is the sequence of its   *)
(* characters; the URLs of the model hold no character that quote_plus or   *)
(* unquote would change, and only schemes that urllib lists in uses_netloc  *)
(* and uses_params.                                                         *)

\* str.find for one character: its first place, 0 when it is not there
IndexOf(s, c) ==
    IF \E k \in DOMAIN s : s[k] = c
    THEN CHOOSE k \in DOMAIN s : s[k] = c /\ \A j \in 1..(k - 1) : s[j] # c
    ELSE 0

\* str.rfind for one character
LastIndexOf(s, c) ==
    IF \E k \in DOMAIN s : s[k] = c
    THEN CHOOSE k \in DOMAIN s :
             s[k] = c /\ \A j \in (k + 1)..Len(s) : s[j] # c
    ELSE 0

\* the first place of any of the characters, 0 when none is there
IndexOfAny(s, cs) ==
    IF \E k \in DOMAIN s : s[k] \in cs
    THEN CHOOSE k \in DOMAIN s :
             s[k] \in cs /\ \A j \in 1..(k - 1) : s[j] \notin cs
    ELSE 0

\* s[:n] and s[n:]; a slice ends where the string ends
Prefix(s, n) == SubSeq(s, 1, IF n > Len(s) THEN Len(s) ELSE n)
Suffix(s, n) == SubSeq(s, n + 1, Len(s))

IsAlpha(c) ==
    \E k \in DOMAIN UpperLetters : c \in {UpperLetters[k], LowerLetters[k]}

\* urllib.parse.scheme_chars
IsSchemeChar(c) == IsAlpha(c) \/ c \in {"0", "1", "2", "+", "-", "."}

\* urllib.parse.urlsplit
urlsplit(url) ==
    LET colon == IndexOf(url, ":")
        has_scheme == /\ colon > 1
                      /\ IsAlpha(url[1])
                      /\ \A k \in 1..(colon - 1) : IsSchemeChar(url[k])
        scheme == IF has_scheme THEN str_lower(Prefix(url, colon - 1))
                  ELSE <<>>
        rest1 == IF has_scheme THEN Suffix(url, colon) ELSE url
        has_netloc == Len(rest1) >= 2 /\ rest1[1] = "/" /\ rest1[2] = "/"
        after == Suffix(rest1, 2)
        delim == IndexOfAny(after, {"/", "?", "#"})
        netloc == IF ~has_netloc THEN <<>>
                  ELSE IF delim = 0 THEN after ELSE Prefix(after, delim - 1)
        rest2 == IF ~has_netloc THEN rest1
                 ELSE IF delim = 0 THEN <<>> ELSE Suffix(after, delim - 1)
        hash == IndexOf(rest2, "#")
        fragment == IF hash = 0 THEN <<>> ELSE Suffix(rest2, hash)
        rest3 == IF hash = 0 THEN rest2 ELSE Prefix(rest2, hash - 1)
        mark == IndexOf(rest3, "?")
    IN  [scheme |-> scheme,
         netloc |-> netloc,
         path |-> IF mark = 0 THEN rest3 ELSE Prefix(rest3, mark - 1),
         query |-> IF mark = 0 THEN <<>> ELSE Suffix(rest3, mark),
         fragment |-> fragment]

\* urllib.parse._splitparams: the parameters of the last path segment
_splitparams(url) ==
    LET slash == LastIndexOf(url, "/")
        semi == IF slash = 0 THEN IndexOf(url, ";")
                ELSE LET k == IndexOf(Suffix(url, slash - 1), ";")
                     IN  IF k = 0 THEN 0 ELSE slash - 1 + k
    IN  IF semi = 0 THEN <<url, <<>> >>
        ELSE <<Prefix(url, semi - 1), Suffix(url, semi)>>

\* urllib.parse.urlparse
urlparse(url) ==
    LET split == urlsplit(url)
        parts == IF IndexOf(split.path, ";") # 0
                 THEN _splitparams(split.path) ELSE <<split.path, <<>> >>
    IN  [scheme |-> split.scheme, netloc |-> split.netloc,
         path |-> parts[1], params |-> parts[2],
         query |-> split.query, fragment |-> split.fragment]

\* ParseResult.hostname: the netloc without user and port, a bracketed host
\* without its brackets, in lower case; <<>> for None
hostname(netloc) ==
    LET at == LastIndexOf(netloc, "@")
        hostinfo == Suffix(netloc, at)
        open == IndexOf(hostinfo, "[")
        bracketed == Suffix(hostinfo, open)
        close == IndexOf(bracketed, "]")
        colon == IndexOf(hostinfo, ":")
        host == IF open # 0
                THEN IF close = 0 THEN bracketed
                     ELSE Prefix(bracketed, close - 1)
                ELSE IF colon = 0 THEN hostinfo
                     ELSE Prefix(hostinfo, colon - 1)
    IN  str_lower(host)

\* str.rstrip("/")
RECURSIVE rstrip_slash(_)
rstrip_slash(path) ==
    IF path # <<>> /\ path[Len(path)] = "/"
    THEN rstrip_slash(Prefix(path, Len(path) - 1))
    ELSE path

\* str.split(sep) for a one-character separator
RECURSIVE split_on(_, _)
split_on(s, sep) ==
    LET k == IndexOf(s, sep)
    IN  IF k = 0 THEN <<s>>
        ELSE <<Prefix(s, k - 1)>> \o split_on(Suffix(s, k), sep)

\* urllib.parse.parse_qsl with its defaults: the fields without "=" and the
\* fields with a blank value are left out
RECURSIVE PairsOf(_)
PairsOf(fields) ==
    IF fields = <<>> THEN <<>>
    ELSE LET field == Head(fields)
             eq == IndexOf(field, "=")
         IN  IF field = <<>> \/ eq = 0 \/ Suffix(field, eq) = <<>>
             THEN PairsOf(Tail(fields))
             ELSE <<<<Prefix(field, eq - 1), Suffix(field, eq)>>>>
                      \o PairsOf(Tail(fields))

parse_qsl(query) ==
    IF query = <<>> THEN <<>> ELSE PairsOf(split_on(query, "&"))

\* ord() of the characters of the queries
CharCode(c) ==
    CASE c = "1" -> 49
      [] c = "2" -> 50
      [] c = "a" -> 97
      [] c = "b" -> 98
      [] c = "z" -> 122

\* s < t for str
RECURSIVE StrLess(_, _)
StrLess(s, t) ==
    IF t = <<>> THEN FALSE
    ELSE IF s = <<>> THEN TRUE
    ELSE IF Head(s) # Head(t) THEN CharCode(Head(s)) < CharCode(Head(t))
    ELSE StrLess(Tail(s), Tail(t))

\* p < q for tuples of two str
PairLess(p, q) ==
    StrLess(p[1], q[1]) \/ (p[1] = q[1] /\ StrLess(p[2], q[2]))

RECURSIVE InsertPair(_, _)
InsertPair(p, sorted) ==
    IF sorted = <<>> THEN <<p>>
    ELSE IF PairLess(p, Head(sorted)) THEN <<p>> \o sorted
    ELSE <<Head(sorted)>> \o InsertPair(p, Tail(sorted))

\* sorted(pairs)
RECURSIVE sorted_pairs(_)
sorted_pairs(pairs) ==
    IF pairs = <<>> THEN <<>>
    ELSE InsertPair(pairs[Len(pairs)],
                    sorted_pairs(Prefix(pairs, Len(pairs) - 1)))

\* urllib.parse.urlencode
RECURSIVE urlencode(_)
urlencode(pairs) ==
    IF pairs = <<>> THEN <<>>
    ELSE pairs[1][1] \o <<"=">> \o pairs[1][2]
            \o (IF Len(pairs) = 1 THEN <<>>
                ELSE <<"&">> \o urlencode(Tail(pairs)))

\* urllib.parse.urlunparse
urlunparse(scheme, netloc, path, params, query, fragment) ==
    LET url1 == IF params # <<>> THEN path \o <<";">> \o params ELSE path
        url2 == IF \/ netloc # <<>>
                   \/ (scheme # <<>> /\ Prefix(url1, 2) # <<"/", "/">>)
                THEN <<"/", "/">> \o netloc
                        \o (IF url1 # <<>> /\ url1[1] # "/"
                            THEN <<"/">> ELSE <<>>)
                        \o url1
                ELSE url1
        url3 == IF scheme # <<>> THEN scheme \o <<":">> \o url2 ELSE url2
        url4 == IF query # <<>> THEN url3 \o <<"?">> \o query ELSE url3
    IN  IF fragment # <<>> THEN url4 \o <<"#">> \o fragment ELSE url4

\* lines 399-407: the URL put together again from the parts of parsed
normalize_parsed(parsed) ==
    {urlunparse(scheme, netloc, path, parsed.params, normalized_query, <<>>) :
        scheme \in {IF str_lower(parsed.scheme) = <<>>
                    THEN <<"h", "t", "t", "p", "s">>
                    ELSE str_lower(parsed.scheme)},
        netloc \in {hostname(parsed.netloc)},
        path \in {IF rstrip_slash(parsed.path) = <<>> THEN <<"/">>
                  ELSE rstrip_slash(parsed.path)},
        normalized_query \in
            {urlencode(sorted_pairs(parse_qsl(parsed.query)))}}

\* lines 388-407; every part of the URL is computed once
normalize_url_text(url) ==
    IF url = <<>> THEN <<>>
    ELSE CHOOSE normalized \in
             UNION {normalize_parsed(parsed) : parsed \in {urlparse(url)}} :
             TRUE

\* the URLs handed to it: with and without scheme, with an upper-case
\* host, with an IPv6 host, with trailing slashes, with path parameters,
\* with unsorted and blank-valued query parameters, with a fragment
UrlSchemes ==
    {<<>>, <<"h", "t", "t", "p", ":", "/", "/">>,
     <<"H", "T", "T", "P", "S", ":", "/", "/">>}

UrlHosts ==
    {<<"a", ".", "b">>, <<"A", ".", "B">>, <<"[", ":", ":", "1", "]">>}

UrlPaths ==
    {<<>>, <<"/">>, <<"/", "x">>, <<"/", "x", "/", "/">>,
     <<"/", "x", ";", "/">>}

UrlQueries ==
    {<<>>, <<"?", "b", "=", "2", "&", "a", "=", "1">>,
     <<"?", "z", "=", "&", "a", "=", "1">>}

UrlFragments == {<<>>, <<"#", "t">>}

UrlTexts ==
    {<<>>} \cup
    {s \o h \o p \o q \o f :
        s \in UrlSchemes, h \in UrlHosts, p \in UrlPaths,
        q \in UrlQueries, f \in UrlFragments}

InitUrl ==
    /\ fn_in \in [url : UrlTexts]
    /\ fn_out = NotRun

NormalizeTwice ==
    /\ fn_out = NotRun
    /\ \E once \in {normalize_url_text(fn_in.url)} :
          fn_out' = [once  |-> once, twice |-> normalize_url_text(once)]
    /\ UNCHANGED <<fn_in, besidesFn>>

NextUrl == NormalizeTwice

InitNormalizeUrl ==
    /\ InitClaim /\ InitAggIdle /\ InitSession
    /\ InitDivIdle /\ InitCacheIdle /\ InitAgenticIdle /\ InitLimiter
    /\ InitPanelStreamIdle
    /\ InitVerifierIdle
    /\ InitResearcherIdle
    /\ InitHistoryIdle /\ InitSearchIdle /\ InitPoolIdle
    /\ InitReconcileIdle
    /\ InitUrl

SpecUrl == InitNormalizeUrl /\ [][NextUrl]_vars

\* C22: normalizing a normalized URL changes nothing:
\* normalize_url(normalize_url(u)) = normalize_url(u) for every URL u.
NormalizeUrlIdempotent ==
    fn_out # NotRun => fn_out.twice = fn_out.once

----------------------------------------------------------------------------
(* panel/agentic_research.py: SharedEvidencePool, lines 429-456, as an      *)
(* object with its two fields                                               *)

MaxAdds == 3
MaxAddList == 2

UrlCZ == Url("https", "c.com", "/z", "", "")

\* hash() of a str: equal for equal URLs, and not injective: two URLs of
\* the model share a hash
url_hash(url) ==
    CASE url = UrlAX -> 11
      [] url = UrlBY -> 22
      [] url = UrlCZ -> 22
      [] OTHER       -> 33

PoolAgents == {"agent1", "agent2"}

\* an Evidence a researcher hands in
PoolEvidence(id, url) == [id |-> id, url |-> url, provenance |-> "research"]

PoolItems ==
    {PoolEvidence(1, UrlAX), PoolEvidence(2, UrlAX), PoolEvidence(3, UrlBY),
     PoolEvidence(4, UrlCZ)}

PoolLists ==
    UNION {[1..n -> PoolItems] : n \in 0..MaxAddList}

\* lines 436-450 without the test of line 441
RECURSIVE add_every_item(_, _, _, _, _)
add_every_item(evidence_pool, source_hashes, evidence_list, agent_name, added_count) ==
    IF evidence_list = <<>>
    THEN [evidence_pool |-> evidence_pool, source_hashes |-> source_hashes,
          added_count |-> added_count]
    ELSE LET item == Head(evidence_list)
         IN  add_every_item(
                 Append(evidence_pool,
                        [item EXCEPT !.provenance =
                            <<"agentic_research_", agent_name>>]),
                 source_hashes \cup {url_hash(item.url)},
                 Tail(evidence_list), agent_name, added_count + 1)

\* lines 436-450: the loop over evidence_list
RECURSIVE add_evidence_loop(_, _, _, _, _)
add_evidence_loop(evidence_pool, source_hashes, evidence_list, agent_name, added_count) ==
    IF evidence_list = <<>>
    THEN [evidence_pool |-> evidence_pool, source_hashes |-> source_hashes,
          added_count |-> added_count]
    ELSE LET item == Head(evidence_list)
             hash == url_hash(item.url)
         IN  IF hash \notin source_hashes
             THEN add_evidence_loop(
                      Append(evidence_pool,
                             [item EXCEPT !.provenance =
                                 <<"agentic_research_", agent_name>>]),
                      source_hashes \cup {hash},
                      Tail(evidence_list), agent_name, added_count + 1)
             ELSE add_evidence_loop(evidence_pool, source_hashes,
                                    Tail(evidence_list), agent_name,
                                    added_count)

\* SharedEvidencePool.add_evidence
AddEvidence(evidence_list, agent_name) ==
    /\ nAdds < MaxAdds
    /\ LET out == add_evidence_loop(sp_pool, sp_hashes, evidence_list,
                                    agent_name, 0)
       IN  /\ sp_pool' = out.evidence_pool
           /\ sp_hashes' = out.source_hashes
           /\ sp_last' = [list |-> evidence_list, before |-> sp_pool,
                          again |-> evidence_list \in sp_added,
                          returned |-> out.added_count]
    /\ sp_added' = sp_added \cup {evidence_list}
    /\ nAdds' = nAdds + 1
    /\ UNCHANGED besidesPool

AddEvidenceStep ==
    \E evidence_list \in PoolLists, agent_name \in PoolAgents :
        AddEvidence(evidence_list, agent_name)

NextPool == AddEvidenceStep

InitPool == InitClaim /\ InitAggIdle /\ InitSession /\ InitUnitsIdle

SpecPool == InitPool /\ [][NextPool]_vars

PoolUrls(pool) == {pool[i].url : i \in DOMAIN pool}

\* C23: add_evidence returns the number of items it appended; an item is
\* appended only if no item of the pool, earlier items of the same call
\* included, has its URL; so the pool holds at most one Evidence per URL,
\* and adding a list that was added before returns 0 and leaves the pool
\* as it was.
PoolHoldsOneEvidencePerUrl ==
    /\ \A i, j \in DOMAIN sp_pool :
           sp_pool[i].url = sp_pool[j].url => i = j
    /\ sp_last # NotRun
       => /\ IsPrefix(sp_last.before, sp_pool)
          /\ sp_last.returned = Len(sp_pool) - Len(sp_last.before)
          /\ \A k \in (Len(sp_last.before) + 1)..Len(sp_pool) :
                /\ sp_pool[k].url \notin PoolUrls(sp_last.before)
                /\ \E n \in DOMAIN sp_last.list :
                       /\ sp_last.list[n].id = sp_pool[k].id
                       /\ sp_last.list[n].url = sp_pool[k].url
          /\ sp_last.again
             => sp_last.returned = 0 /\ sp_pool = sp_last.before

\* a list of two items is added a second time, to a pool that holds items
ListAddedAgain ==
    /\ sp_last # NotRun
    /\ sp_last.again
    /\ Len(sp_last.list) = 2
    /\ sp_last.list[1].url # sp_last.list[2].url
    /\ Len(sp_pool) >= 2
    /\ sp_last.returned = 0

----------------------------------------------------------------------------
(* mcp/explorer.py: ExplorerToolset.search_web, lines 53-137, called by     *)
(* gather_sources (lines 214-300) for its four strategies with the id of a  *)
(* session whose progress stream a client reads (main.py:120-181)           *)

Strategies == <<"direct", "academic", "government", "news">>

\* what self.search_api.search does in one call
SearchOutcomes == {"results", "nothing", "raises"}

SearchResults == <<"result-1", "result-2">>

\* emit_agent_update, main.py:120-141: the stage of the event
agent_update_stage(error) == IF error THEN "error" ELSE "agent_activity"

\* emit_progress on the session's stream, and the stages that found none
EmitForSession(stage) ==
    /\ progress_streams' = emit_progress(progress_streams, Sid, stage)
    /\ sw_lost' = IF Sid \in DOMAIN progress_streams THEN sw_lost
                  ELSE Append(sw_lost, stage)

\* search_web to its first await of the provider: without a provider the
\* event of lines 68-76 and the return of line 77; with one the event of
\* lines 83-89
SearchWebCall ==
    /\ sw_pc = "idle"
    /\ sw_calls < Len(Strategies)
    /\ IF sw_provider = "unconfigured"
       THEN /\ EmitForSession(agent_update_stage(TRUE))
            /\ sw_emitted' = Append(sw_emitted, agent_update_stage(TRUE))
            /\ sw_returned' = Append(sw_returned, <<>>)
            /\ sw_calls' = sw_calls + 1
            /\ sw_pc' = sw_pc
       ELSE /\ EmitForSession(agent_update_stage(FALSE))
            /\ sw_emitted' = Append(sw_emitted, agent_update_stage(FALSE))
            /\ sw_pc' = "searching"
            /\ UNCHANGED <<sw_returned, sw_calls>>
    /\ UNCHANGED <<sw_provider, cancelled_sessions, task, research, replies,
                   subscriber, sent, cancel_at, nCancels, cancel_reply,
                   mainVars, aggVars, besidesSearchUnits>>

\* search_web after self.search_api.search: lines 95-121, or the handler of
\* lines 122-137
SearchWebReturn(outcome) ==
    /\ sw_pc = "searching"
    /\ EmitForSession(agent_update_stage(FALSE))
    /\ sw_emitted' = Append(sw_emitted, agent_update_stage(FALSE))
    /\ sw_returned' = Append(sw_returned,
                             IF outcome = "results" THEN SearchResults
                             ELSE <<>>)
    /\ sw_calls' = sw_calls + 1
    /\ sw_pc' = "idle"
    /\ UNCHANGED <<sw_provider, cancelled_sessions, task, research, replies,
                   subscriber, sent, cancel_at, nCancels, cancel_reply,
                   mainVars, aggVars, besidesSearchUnits>>

SearchWebReturnStep == \E outcome \in SearchOutcomes : SearchWebReturn(outcome)

\* gather_sources after the four strategies, lines 278-300: the event of
\* the coordinator
Consolidate ==
    /\ sw_pc = "idle"
    /\ sw_calls = Len(Strategies)
    /\ EmitForSession(agent_update_stage(FALSE))
    /\ sw_pc' = "consolidated"
    /\ UNCHANGED <<sw_provider, sw_calls, sw_returned, sw_emitted,
                   cancelled_sessions, task, research, replies,
                   subscriber, sent, cancel_at, nCancels, cancel_reply,
                   mainVars, aggVars, besidesSearchUnits>>

NextSearch ==
    \/ SearchWebCall
    \/ SearchWebReturnStep
    \/ Consolidate
    \/ Subscribe
    \/ StreamNext
    \/ StreamKeepalive

\* a session with its stream, and the toolset with or without a provider
InitSearch ==
    /\ InitClaim /\ InitAggIdle
    /\ InitDivIdle /\ InitCacheIdle /\ InitAgenticIdle /\ InitLimiter
    /\ InitPanelStreamIdle
    /\ InitVerifierIdle
    /\ InitResearcherIdle
    /\ InitHistoryIdle /\ InitPoolIdle /\ InitReconcileIdle /\ InitFnIdle
    /\ progress_streams = [k \in {Sid} |-> <<>>]
    /\ cancelled_sessions = {}
    /\ task = "gathering"
    /\ research = <<>>
    /\ replies = <<>>
    /\ subscriber \in {"none", "streaming"}
    /\ sent = "none"
    /\ cancel_at = NoCancel
    /\ nCancels = 0
    /\ cancel_reply = NoReply
    /\ sw_provider \in {"configured", "unconfigured"}
    /\ sw_pc = "idle"
    /\ sw_calls = 0
    /\ sw_returned = <<>>
    /\ sw_emitted = <<>>
    /\ sw_lost = <<>>

SpecSearch == InitSearch /\ [][NextSearch]_vars

\* C24: with the provider unconfigured, or when a search call fails,
\* search_web returns an empty list, and the event it emits carries no
\* terminal stage: the stream of the session is not closed and no later
\* event of the pipeline goes unsent for want of a stream.
SearchFailureIsNonFatal ==
    /\ sw_provider = "unconfigured"
       => \A k \in DOMAIN sw_returned : sw_returned[k] = <<>>
    /\ \A k \in DOMAIN sw_emitted : sw_emitted[k] \notin TerminalStages
    /\ subscriber # "closed"
    /\ sw_lost = <<>>

----------------------------------------------------------------------------
(* main.py: the panel history of the claims of claims_db under the three    *)
(* operations that run a panel: POST /claims/{id}/panel/run (lines          *)
(* 775-822), the agentic run with progress (lines 878-890) and the creation *)
(* of a claim from a query (lines 553-624), with the reconciliation of      *)
(* lines 1073-1137                                                          *)

MaxHistoryRuns == 7

\* two claims of one topic that are there from the start, and the claim a
\* query creates
TopicClaims == {"rising", "declining"}
QueryClaim == "from-query"

ClaimTextOf(claim) ==
    CASE claim = "rising" -> TxtRising
      [] claim = "declining" -> TxtDeclining
      [] OTHER -> TxtJobs

TopicOf(claim) ==
    IF claim \in TopicClaims THEN "crime" ELSE "auto-generated"

\* the summaries of the panel runs of the model
RunSummaries ==
    {PanelSummary(Conf(70000), Conf(30000), 2, "true"),
     PanelSummary(Conf(90000), Conf(10000), 2, "true")}

HistoryRuns ==
    LET Sum[S \in SUBSET DOMAIN ph_runs] ==
            IF S = {} THEN 0
            ELSE LET c == CHOOSE x \in S : TRUE
                 IN  ph_runs[c] + Sum[S \ {c}]
    IN  Sum[DOMAIN ph_runs]

\* _apply_complementary_reconciliation: the panel results of the other
\* claims after it; the first claim of the topic with a panel result is
\* reconciled, and its last result replaced when both summaries changed
ReconciledPeers(results, claim, panel_result) ==
    LET peers == {c \in DOMAIN results :
                     /\ c # claim
                     /\ TopicOf(c) = TopicOf(claim)
                     /\ results[c] # <<>>}
    IN  IF peers = {} THEN results
        ELSE LET other == CHOOSE c \in peers : TRUE
                 other_panel == results[other][Len(results[other])]
                 pair == reconcile_complementary_verdicts(
                             ClaimTextOf(claim), panel_result.summary,
                             ClaimTextOf(other), other_panel.summary)
                 changed(a, b) ==
                     \/ a.support_confidence # b.support_confidence
                     \/ a.refute_confidence # b.refute_confidence
             IN  IF /\ changed(pair[1], panel_result.summary)
                    /\ changed(pair[2], other_panel.summary)
                 THEN [results EXCEPT ![other][Len(results[other])] =
                          PanelResult(other_panel.prompt, other_panel.models,
                                      pair[2])]
                 ELSE results

\* lines 799-807 and 879-890: the result appended, the history cut to the
\* last five, then the reconciliation
StorePanelResult(claim, panel_result) ==
    /\ claim \in DOMAIN ph_results
    /\ HistoryRuns < MaxHistoryRuns
    /\ ph_results' =
          ReconciledPeers(
              [ph_results EXCEPT ![claim] =
                  LastN(Append(@, panel_result), MaxPanelHistory)],
              claim, panel_result)
    /\ ph_runs' = [ph_runs EXCEPT ![claim] = @ + 1]
    /\ UNCHANGED besidesHistory

\* POST /claims/{claim_id}/panel/run
RunModelPanel ==
    \E claim \in DOMAIN ph_results, summary \in RunSummaries :
        StorePanelResult(claim, PanelResult("prompt", <<>>, summary))

\* the agentic run with its progress stream
RunAgenticPanelWithProgress ==
    \E claim \in DOMAIN ph_results, summary \in RunSummaries :
        StorePanelResult(claim, PanelResult("prompt", <<>>, summary))

\* _create_claim_from_query, lines 565-624: a new claim in claims_db, and
\* the result of its panel appended
CreateClaimFromQuery ==
    /\ QueryClaim \notin DOMAIN ph_results
    /\ HistoryRuns < MaxHistoryRuns
    /\ \E summary \in RunSummaries :
          ph_results' =
             [c \in DOMAIN ph_results \cup {QueryClaim} |->
                 IF c = QueryClaim
                 THEN Append(<<>>, PanelResult("prompt", <<>>, summary))
                 ELSE ph_results[c]]
    /\ ph_runs' = [c \in DOMAIN ph_runs \cup {QueryClaim} |->
                      IF c = QueryClaim THEN 1 ELSE ph_runs[c]]
    /\ UNCHANGED besidesHistory

NextHistory ==
    \/ RunModelPanel
    \/ RunAgenticPanelWithProgress
    \/ CreateClaimFromQuery

InitHistory ==
    /\ InitClaim /\ InitAggIdle /\ InitSession
    /\ InitDivIdle /\ InitCacheIdle /\ InitAgenticIdle /\ InitLimiter
    /\ InitPanelStreamIdle
    /\ InitVerifierIdle
    /\ InitResearcherIdle
    /\ InitSearchIdle /\ InitPoolIdle /\ InitReconcileIdle /\ InitFnIdle
    /\ ph_results = [c \in TopicClaims |-> <<>>]
    /\ ph_runs = [c \in TopicClaims |-> 0]

SpecHistory == InitHistory /\ [][NextHistory]_vars

\* C25: after every operation that runs a panel, each claim's panel_results
\* holds at most 5 entries.
PanelHistoryAtMostFive ==
    \A claim \in DOMAIN ph_results :
        Len(ph_results[claim]) <= MaxPanelHistory

\* a claim that got more than five panel results and holds the last
\* five, beside another claim of its topic with panel results of its own
SixthResultDroppedTheFirst ==
    \E claim \in DOMAIN ph_results :
        /\ ph_runs[claim] > MaxPanelHistory
        /\ Len(ph_results[claim]) = MaxPanelHistory
        /\ \E other \in DOMAIN ph_results \ {claim} :
              /\ TopicOf(other) = TopicOf(claim)
              /\ ph_results[other] # <<>>

----------------------------------------------------------------------------
(* The auto-claim flow when the 180 s bound expires (main.py:608-642).  The *)
(* researchers' sources are merged into the claim only in phase 4 of        *)
(* run_agentic_panel_evaluation (run_panel.py:643-652), which the abandoned *)
(* run never reaches.                                                       *)

\* the timeout event is in the session's queue
TimeoutEmitted ==
    /\ Sid \in DOMAIN progress_streams
    /\ \E k \in DOMAIN progress_streams[Sid] :
          progress_streams[Sid][k] = "evaluation_timeout"

\* the urls of the sources the researchers had returned
GatheredUrls ==
    UNION {{research[i][j].url : j \in DOMAIN research[i]} :
              i \in DOMAIN research}

\* C26: when the 180 s bound on the panel evaluation of the auto-claim flow
\* expires, the timeout event is emitted and the evidence the researchers
\* gathered before the timeout is in the claim's evidence list
TimeoutKeepsGatheredEvidence ==
    TimeoutEmitted =>
        \A url \in GatheredUrls :
            \E k \in DOMAIN evidence : evidence[k].url = url

----------------------------------------------------------------------------
(* BaseProviderAdapter.evaluate on any parsed payload (run_panel.py:126-194, *)
(* 990-1015), with the prompt and the lookup built as run_panel_evaluation   *)
(* builds them (703-709).                                                    *)

MaxCited == 2

CitEvidence(id) ==
    MkEvidence(id, IF id = 1 THEN UrlAX ELSE UrlBY, "", "Alpha",
               IF id = 1 THEN NoTime ELSE 4 - id, EmptyUrl, NoHash)

\* claim.evidence of the evaluated claim
CitEvidenceLists ==
    {<<>>, <<CitEvidence(1)>>, <<CitEvidence(2), CitEvidence(1)>>,
     <<CitEvidence(1), CitEvidence(2), CitEvidence(3)>>}

\* what a payload can hold in evidence_ids: ids of the listed evidence, the
\* id of no evidence, "", null and a number
CitValues ==
    {<<"uuid", 1>>, <<"uuid", 2>>, <<"uuid", 4>>, <<"text", 0>>,
     <<"none", 0>>, <<"num", 1>>}

CitLists == UNION {[1..n -> CitValues] : n \in 0..MaxCited}

InitCit ==
    /\ fn_in \in [evidence : CitEvidenceLists, approval : CitLists,
                  refusal : CitLists]
    /\ fn_out = NotRun

\* run_panel_evaluation, lines 703-709, for one model whose provider
\* answered with the payload
EvaluatePayload ==
    /\ fn_out = NotRun
    /\ LET prompt == build_normalized_prompt(fn_in.evidence,
                                             TimeWindow(NoTime, NoTime))
           evidence_lookup == EvidenceLookup(fn_in.evidence)
           parsed ==
              [approval_argument |->
                   [evidence_ids |-> fn_in.approval,
                    confidence |-> _stub_profile("gpt-4o")[1]],
               refusal_argument |->
                   [evidence_ids |-> fn_in.refusal,
                    confidence |-> _stub_profile("gpt-4o")[2]]]
       IN  fn_out' = [prompt |-> prompt,
                      verdict |-> evaluate_parsed("gpt-4o", parsed,
                                                  evidence_lookup)]
    /\ UNCHANGED <<fn_in, besidesFn>>

NextCit == EvaluatePayload

InitCitations ==
    /\ InitClaim /\ InitAggIdle /\ InitSession
    /\ InitDivIdle /\ InitCacheIdle /\ InitAgenticIdle /\ InitLimiter
    /\ InitPanelStreamIdle
    /\ InitVerifierIdle
    /\ InitResearcherIdle
    /\ InitHistoryIdle /\ InitSearchIdle /\ InitPoolIdle
    /\ InitReconcileIdle
    /\ InitCit

SpecCit == InitCitations /\ [][NextCit]_vars

\* the ids of the evidence the prompt lists
PromptIds(prompt) ==
    {prompt.evidence[k].id : k \in DOMAIN prompt.evidence}

\* the first place of the string of id in the payload's values, 0 if none
FirstCited(values, id) ==
    IF \E i \in DOMAIN values : values[i] = StrId(id)
    THEN CHOOSE i \in DOMAIN values :
            /\ values[i] = StrId(id)
            /\ \A j \in 1..(i - 1) : values[j] # StrId(id)
    ELSE 0

\* ids holds, once each and in the order of their first citation, the
\* evidence of the prompt that values cites
CitesListedOnce(ids, values, prompt) ==
    /\ \A i \in DOMAIN ids : StrId(ids[i]) \in PromptIds(prompt)
    /\ \A i, j \in DOMAIN ids : i # j => ids[i] # ids[j]
    /\ {StrId(ids[i]) : i \in DOMAIN ids} =
          {values[i] : i \in DOMAIN values} \cap PromptIds(prompt)
    /\ \A i, j \in DOMAIN ids :
          i < j => FirstCited(values, ids[i]) < FirstCited(values, ids[j])

\* C27: for any provider payload, every id in the evidence_ids of either
\* argument of the verdict that evaluate returns is the id of an evidence
\* listed in the prompt; entries that are not in the lookup are dropped and
\* duplicates are removed, the order of first occurrence preserved
VerdictCitesOnlyPromptEvidence ==
    fn_out # NotRun =>
        /\ CitesListedOnce(fn_out.verdict.approval_argument.evidence_ids,
                           fn_in.approval, fn_out.prompt)
        /\ CitesListedOnce(fn_out.verdict.refusal_argument.evidence_ids,
                           fn_in.refusal, fn_out.prompt)

\* a payload that cites one evidence twice and, in the other argument, the
\* id of no evidence before a listed one
DuplicateAndStrayCitationsMapped ==
    /\ fn_out # NotRun
    /\ Len(fn_in.evidence) = 2
    /\ fn_in.approval = <<StrId(1), StrId(1)>>
    /\ fn_out.verdict.approval_argument.evidence_ids = <<1>>
    /\ fn_in.refusal = <<StrId(4), StrId(2)>>
    /\ fn_out.verdict.refusal_argument.evidence_ids = <<2>>

----------------------------------------------------------------------------
(* One researcher: AgenticResearcher.conduct_research                       *)
(* (agentic_research.py:45-135) with its turns (152-295), the analysis of   *)
(* a turn (297-317) and the conversion of the sources (349-392).  The       *)
(* researcher works for the session Sid, whose stream is registered; a      *)
(* cancel request can arrive whenever the researcher is suspended, which it *)
(* is only while it awaits the connection or a tool call.                   *)

MaxTurns == 5

UrlDW == Url("https", "d.com", "/w", "", "")

\* a result of the search server: brave_search_server.py:74-84
ToolSource(url) ==
    [url |-> url, title |-> "t", snippet |-> "s", pub |-> NoTime,
     domain |-> url.host]

\* four results of four domains
BatchFour ==
    <<ToolSource(UrlAX), ToolSource(UrlBY), ToolSource(UrlCZ),
      ToolSource(UrlDW)>>

\* two results of one domain
BatchSame == <<ToolSource(UrlAX), ToolSource(UrlAX)>>

\* client.call_tool: it raises, its result has no data, or it has results
ToolOutcomes == {"raise", "nodata", "four", "same"}

ToolResults(outcome) ==
    CASE outcome = "four" -> BatchFour
      [] outcome = "same" -> BatchSame
      [] OTHER            -> <<>>

AgentName == "gpt-4o_researcher"

\* _execute_research_turn, lines 163-280: the action logged for the turn
TurnAction(turn) ==
    CASE turn = 0 -> "broad_search"
      [] turn = 1 -> "perspective_search"
      [] turn = 2 -> "targeted_source_search"
      [] OTHER    -> "gap_search"

\* lines 277-279: the turn and the agent written into a source
TagSource(source, turn) ==
    [url |-> source.url, title |-> source.title, snippet |-> source.snippet,
     pub |-> source.pub, domain |-> source.domain, research_turn |-> turn,
     agent |-> AgentName]

\* _execute_research_turn with the except clause of lines 284-292 left out:
\* the error of the tool call leaves the turn
_execute_turn_uncaught(collected_sources, research_log, turn, outcome) ==
    IF outcome = "raise"
    THEN [collected_sources |-> collected_sources,
          research_log |-> research_log, turn_sources |-> <<>>,
          raised |-> TRUE]
    ELSE LET turn_sources == ToolResults(outcome)
         IN  [collected_sources |->
                  collected_sources \o
                  AsList([i \in DOMAIN turn_sources |->
                             TagSource(turn_sources[i], turn)]),
              research_log |->
                  IF outcome = "nodata" THEN research_log
                  ELSE Append(research_log,
                              [turn |-> turn, action |-> TurnAction(turn),
                               results_count |-> Len(turn_sources)]),
              turn_sources |-> turn_sources,
              raised |-> FALSE]

\* _execute_research_turn: the researcher's lists after the turn, and what
\* the turn returns
_execute_research_turn(collected_sources, research_log, turn, outcome) ==
    IF outcome = "raise"
    THEN [collected_sources |-> collected_sources,
          research_log |->
              Append(research_log,
                     [turn |-> turn, action |-> "error", results_count |-> 0]),
          turn_sources |-> <<>>,
          raised |-> FALSE]
    ELSE LET turn_sources == ToolResults(outcome)
         IN  [collected_sources |->
                  collected_sources \o
                  AsList([i \in DOMAIN turn_sources |->
                             TagSource(turn_sources[i], turn)]),
              research_log |->
                  IF outcome = "nodata" THEN research_log
                  ELSE Append(research_log,
                              [turn |-> turn, action |-> TurnAction(turn),
                               results_count |-> Len(turn_sources)]),
              turn_sources |-> turn_sources,
              raised |-> FALSE]

\* _analyze_turn_results with a threshold of four sources
sufficient_with_four(collected_sources) ==
    /\ Len(collected_sources) >= 4
    /\ Cardinality({collected_sources[i].domain :
                       i \in DOMAIN collected_sources}) >= 4

\* _analyze_turn_results, lines 302-309: analysis["sufficient_evidence"]
sufficient_evidence(collected_sources) ==
    /\ Len(collected_sources) >= 8
    /\ Cardinality({collected_sources[i].domain :
                       i \in DOMAIN collected_sources}) >= 4

\* the researcher's emit: emit_agent_update without an error
EmitResearch(n) ==
    progress_streams' =
        EmitStages(progress_streams, Sid,
                   [i \in 1..n |-> agent_update_stage(FALSE)])

\* conduct_research up to its first tool call (lines 61-94): the client
\* connects, the start is announced, the plan is made, turn 0 is announced
\* and its tool call awaited; or the connection fails and the handler of
\* lines 127-135 returns []
ConductResearch(connected) ==
    /\ cr_pc = "idle"
    /\ IF connected
       THEN /\ EmitResearch(2)
            /\ cr_started' = Append(cr_started, cr_turn)
            /\ cr_pc' = "awaiting"
            /\ cr_returned' = cr_returned
       ELSE /\ EmitResearch(1)
            /\ cr_started' = cr_started
            /\ cr_pc' = "returned"
            /\ cr_returned' = [evidence |-> <<>>, failed |-> TRUE]
    /\ UNCHANGED <<cr_max, cr_turn, cr_collected, cr_log, cr_outcomes>>
    /\ UNCHANGED <<cancelled_sessions, task, research, replies, subscriber,
                   sent, cancel_at, nCancels, cancel_reply, mainVars,
                   aggVars, besidesResearcherUnits>>

\* lines 92-125: the tool call ends; the rest of the turn, the analysis and
\* the test of the loop.  After the last turn, or with sufficient evidence,
\* the sources are converted and returned; otherwise the next turn is
\* announced and its tool call awaited (lines 83-94).
ToolReturn(outcome) ==
    LET r == _execute_research_turn(cr_collected, cr_log, cr_turn, outcome)
        stop == /\ sufficient_evidence(r.collected_sources)
                /\ Len(r.collected_sources) >= 5
        final == cr_turn + 1 >= cr_max
    IN  /\ cr_pc = "awaiting"
        /\ cr_outcomes' = Append(cr_outcomes, outcome)
        /\ cr_collected' = r.collected_sources
        /\ cr_log' = r.research_log
        /\ IF r.raised
           THEN /\ EmitResearch(1)
                /\ cr_pc' = "returned"
                /\ cr_returned' = [evidence |-> <<>>, failed |-> TRUE]
                /\ UNCHANGED <<cr_turn, cr_started>>
           ELSE IF stop \/ final
           THEN /\ EmitResearch(IF stop THEN 2 ELSE 1)
                /\ cr_pc' = "returned"
                /\ cr_returned' =
                      [evidence |->
                           _convert_to_evidence(r.collected_sources, 1),
                       failed |-> FALSE]
                /\ UNCHANGED <<cr_turn, cr_started>>
           ELSE /\ EmitResearch(1)
                /\ cr_turn' = cr_turn + 1
                /\ cr_started' = Append(cr_started, cr_turn + 1)
                /\ UNCHANGED <<cr_pc, cr_returned>>
        /\ UNCHANGED cr_max
        /\ UNCHANGED <<cancelled_sessions, task, research, replies,
                       subscriber, sent, cancel_at, nCancels, cancel_reply,
                       mainVars, aggVars, besidesResearcherUnits>>

\* POST /claims/cancel/{session_id} for the researcher's session
CancelResearchSession == CancelClaimCreation(Sid)

ConductResearchStep == \E connected \in BOOLEAN : ConductResearch(connected)

ToolReturnStep == \E outcome \in ToolOutcomes : ToolReturn(outcome)

NextResearcher ==
    \/ ConductResearchStep
    \/ ToolReturnStep
    \/ CancelResearchSession

InitResearcher ==
    /\ InitClaim /\ InitAggIdle
    /\ InitDivIdle /\ InitCacheIdle /\ InitAgenticIdle /\ InitLimiter
    /\ InitPanelStreamIdle
    /\ InitVerifierIdle
    /\ InitHistoryIdle /\ InitSearchIdle /\ InitPoolIdle
    /\ InitReconcileIdle /\ InitFnIdle
    /\ progress_streams = [k \in {Sid} |-> <<>>]
    /\ cancelled_sessions = {}
    /\ task = "research"
    /\ research = <<>>
    /\ replies = <<>>
    /\ subscriber = "none"
    /\ sent = "none"
    /\ cancel_at = NoCancel
    /\ nCancels = 0
    /\ cancel_reply = NoReply
    /\ cr_max \in 1..MaxTurns
    /\ cr_pc = "idle"
    /\ cr_turn = 0
    /\ cr_collected = <<>>
    /\ cr_log = <<>>
    /\ cr_started = <<>>
    /\ cr_outcomes = <<>>
    /\ cr_returned = NotRun

SpecResearcher == InitResearcher /\ [][NextResearcher]_vars

\* the sources of the turns whose tool call gave results, in the order of
\* the turns
RECURSIVE SourcesOfTurns(_)
SourcesOfTurns(outcomes) ==
    IF outcomes = <<>> THEN <<>>
    ELSE ToolResults(Head(outcomes)) \o SourcesOfTurns(Tail(outcomes))

\* the turns whose tool call raised
FailedTurns ==
    {i - 1 : i \in {k \in DOMAIN cr_outcomes : cr_outcomes[k] = "raise"}}

\* C28: within one researcher the turns 0, 1, 2, ... are executed strictly in
\* increasing order, never more than max_search_turns of them; a turn whose
\* tool call fails does not abort the session: an error entry is logged, the
\* next turn still runs, and the sources collected in the other turns are
\* still returned as Evidence
TurnsInOrderAndFailureNotFatal ==
    /\ Len(cr_started) <= cr_max
    /\ \A i \in DOMAIN cr_started : cr_started[i] = i - 1
    /\ \A turn \in FailedTurns :
          /\ \E k \in DOMAIN cr_log :
                cr_log[k].turn = turn /\ cr_log[k].action = "error"
          /\ cr_pc = "returned" /\ turn + 1 < cr_max
                => turn + 1 \in {cr_started[i] : i \in DOMAIN cr_started}
    /\ cr_pc = "returned" /\ cr_started # <<>> =>
          LET sources == SourcesOfTurns(cr_outcomes)
          IN  /\ ~cr_returned.failed
              /\ Len(cr_returned.evidence) = Len(sources)
              /\ \A i \in DOMAIN sources :
                    cr_returned.evidence[i].url = sources[i].url

\* a researcher whose second turn failed and that returned the sources of
\* its first and third turn
FailedTurnBetweenTwoGoodOnes ==
    /\ cr_pc = "returned"
    /\ Len(cr_outcomes) >= 3
    /\ cr_outcomes[1] = "same" /\ cr_outcomes[2] = "raise"
    /\ cr_outcomes[3] = "four"
    /\ Len(cr_returned.evidence) = 6

\* self.collected_sources as it was at the end of the turn
CollectedUpTo(turn) ==
    SelectSeq(cr_collected, LAMBDA source : source.research_turn <= turn)

\* at least 8 sources and at least 4 unique domains among them
EightSourcesFourDomains(sources) ==
    /\ Len(sources) >= 8
    /\ \E domains \in SUBSET {sources[i].domain : i \in DOMAIN sources} :
          Cardinality(domains) = 4

\* C29: a researcher starts no further turn after the first turn at whose
\* end sufficient_evidence holds, which is exactly when at least 8 sources
\* in total and at least 4 unique domains have been collected; if it never
\* holds, the researcher runs all max_search_turns turns
StopsAtFirstSufficientTurn ==
    /\ \A i \in DOMAIN cr_started :
          \A turn \in 0..(cr_started[i] - 1) :
              ~EightSourcesFourDomains(CollectedUpTo(turn))
    /\ cr_pc = "returned" /\ cr_started # <<>> =>
          \/ EightSourcesFourDomains(cr_collected)
          \/ Len(cr_started) = cr_max

\* a researcher with five turns allowed that returned after its second
\* turn, the first turn at whose end it had 8 sources of 4 domains
ReturnedAfterSecondOfFiveTurns ==
    /\ cr_pc = "returned"
    /\ cr_max = 5
    /\ cr_started = <<0, 1>>
    /\ Len(CollectedUpTo(0)) = 4
    /\ Len(cr_collected) = 8
    /\ Len(cr_returned.evidence) = 8

\* C30: the cancellation check is made at the start of each researcher turn
\* (and before each adapter invocation): once the session has been marked
\* cancelled, no new researcher turn is started
NoTurnStartsAfterCancel ==
    [][check_cancellation(Sid) => cr_started' = cr_started]_vars

----------------------------------------------------------------------------
(* BaseProviderAdapter._call_provider and _should_fail_on_error             *)
(* (run_panel.py:196-243) under the loop of run_agentic_panel_evaluation    *)
(* (612-641).  The text of an error is a sequence of parts, each part one   *)
(* of the phrases the adapters and _ensure_payload_dict (836-893) put into  *)
(* their errors; str.lower works on the parts and "pattern in text" holds   *)
(* when a part of the lowered text is the pattern.                          *)

MaxErrorParts == 2

\* the phrases of the errors: of _ensure_payload_dict (line 888), of
\* json.JSONDecodeError, of the adapters (line 254) and of the transport
ErrorParts ==
    {"Could not parse provider payload", "Expecting ',' delimiter",
     "Expecting value:", "Unterminated string", "Expecting property name",
     "OpenAI API key not configured", "Empty provider response",
     "Connection reset"}

\* str.lower on a phrase
LowerPart(part) ==
    CASE part = "Could not parse provider payload" ->
             "could not parse provider payload"
      [] part = "Expecting ',' delimiter" -> "expecting ',' delimiter"
      [] part = "Expecting value:"        -> "expecting value:"
      [] part = "Unterminated string"     -> "unterminated string"
      [] part = "Expecting property name" -> "expecting property name"
      [] part = "OpenAI API key not configured" ->
             "openai api key not configured"
      [] part = "Empty provider response" -> "empty provider response"
      [] part = "Connection reset"        -> "connection reset"

\* str(exc).lower()
LowerError(error) == [i \in DOMAIN error |-> LowerPart(error[i])]

\* pattern in error_msg
PatternIn(pattern, error_msg) ==
    \E i \in DOMAIN error_msg : error_msg[i] = pattern

\* line 222-229
fatal_patterns ==
    {"could not parse provider payload", "expecting ',' delimiter",
     "expecting value:", "json decode", "invalid json",
     "unterminated string"}

\* line 232: the patterns of the errors that are let through
lenient_patterns == {"expecting ',' delimiter", "json decode", "invalid json"}

\* BaseProviderAdapter._should_fail_on_error
_should_fail_on_error(error) ==
    LET error_msg == LowerError(error)
    IN  IF \E pattern \in lenient_patterns : PatternIn(pattern, error_msg)
        THEN FALSE
        ELSE \E pattern \in fatal_patterns : PatternIn(pattern, error_msg)

\* what _invoke does: it returns a response or raises an error
InvokeOutcomes ==
    {[raises |-> FALSE, error |-> <<>>]} \cup
    {[raises |-> TRUE, error |-> e] :
        e \in UNION {[1..n -> ErrorParts] : n \in 1..MaxErrorParts}}

\* _call_provider: the error raised again, or the payload: the response or
\* the stub of _fallback
_call_provider(model, prompt, invoked) ==
    IF invoked.raises /\ _should_fail_on_error(invoked.error)
    THEN [raised |-> TRUE, stub |-> FALSE]
    ELSE [raised |-> FALSE, stub |-> invoked.raises,
          payload |-> ParsedPayload(model, prompt)]

\* run_agentic_panel_evaluation, lines 622-630: the entry of the model in
\* the panel
PanelEntry(model, prompt, evidence_lookup, invoked) ==
    LET called == _call_provider(model, prompt, invoked)
    IN  IF called.raised THEN _create_failed_verdict(model)
        ELSE evaluate_parsed(model, called.payload, evidence_lookup)

InitAdapter ==
    /\ fn_in \in [model : {"gpt-4o", "grok-3"}, invoked : InvokeOutcomes]
    /\ fn_out = NotRun

EvaluateModel ==
    /\ fn_out = NotRun
    /\ LET evs == <<CitEvidence(2), CitEvidence(1)>>
           prompt == build_normalized_prompt(evs, TimeWindow(NoTime, NoTime))
       IN  fn_out' =
              [stub  |-> _call_provider(fn_in.model, prompt,
                                        fn_in.invoked).stub,
               entry |-> PanelEntry(fn_in.model, prompt, EvidenceLookup(evs),
                                    fn_in.invoked)]
    /\ UNCHANGED <<fn_in, besidesFn>>

NextAdapter == EvaluateModel

InitProviderCall ==
    /\ InitClaim /\ InitAggIdle /\ InitSession
    /\ InitDivIdle /\ InitCacheIdle /\ InitAgenticIdle /\ InitLimiter
    /\ InitPanelStreamIdle
    /\ InitVerifierIdle
    /\ InitResearcherIdle
    /\ InitHistoryIdle /\ InitSearchIdle /\ InitPoolIdle
    /\ InitReconcileIdle
    /\ InitAdapter

SpecAdapter == InitProviderCall /\ [][NextAdapter]_vars

\* the patterns the statement calls fatal
StatedFatalPatterns ==
    {"could not parse provider payload", "expecting value:",
     "unterminated string"}

\* C31: when the invocation raises an error whose text contains any of
\* "could not parse provider payload", "expecting value:" or "unterminated
\* string", no stub is substituted and the entry of the model is a failed
\* verdict; an error with none of the fatal patterns gives a stub verdict
\* that is not failed
FatalErrorGivesFailedVerdict ==
    fn_out # NotRun /\ fn_in.invoked.raises =>
        LET error_msg == LowerError(fn_in.invoked.error)
        IN  /\ (\E pattern \in StatedFatalPatterns :
                    PatternIn(pattern, error_msg))
                => fn_out.entry.failed /\ ~fn_out.stub
            /\ ~(\E pattern \in fatal_patterns :
                    PatternIn(pattern, error_msg))
                => ~fn_out.entry.failed /\ fn_out.stub

----------------------------------------------------------------------------
(* The texts of the arguments (run_panel.py:1104-1164).  A text is a        *)
(* sequence of runs <<c, n>>: n times the character c, n >= 1.  The         *)
(* characters are a letter "a", the blank, the sentence marks, "x" for a    *)
(* character of a broken citation marker, and "#" for a whole citation      *)
(* marker "(uuid)" of 38 characters.                                        *)

MarkerLen == 38

RunLen(run) == IF run[1] = "#" THEN MarkerLen * run[2] ELSE run[2]

\* len(text)
RECURSIVE TextLength(_)
TextLength(text) ==
    IF text = <<>> THEN 0 ELSE RunLen(Head(text)) + TextLength(Tail(text))

\* the first k characters of a run; a marker that is cut leaves characters
\* that are no marker
TakeOfRun(run, k) ==
    IF run[1] = "#"
    THEN (IF k \div MarkerLen > 0 THEN <<<<"#", k \div MarkerLen>>>>
          ELSE <<>>)
         \o (IF k % MarkerLen > 0 THEN <<<<"x", k % MarkerLen>>>> ELSE <<>>)
    ELSE <<<<run[1], k>>>>

\* text[:k], k >= 0
RECURSIVE TakeChars(_, _)
TakeChars(text, k) ==
    IF text = <<>> \/ k <= 0 THEN <<>>
    ELSE IF RunLen(Head(text)) <= k
    THEN <<Head(text)>> \o TakeChars(Tail(text), k - RunLen(Head(text)))
    ELSE TakeOfRun(Head(text), k)

\* str.rfind(c + " ") for a sentence mark c: the place (from 0) of the last
\* c that a blank follows, -1 when there is none
RECURSIVE RFindEnding(_, _, _, _)
RFindEnding(text, c, offset, found) ==
    IF Len(text) < 2 THEN found
    ELSE RFindEnding(Tail(text), c, offset + RunLen(Head(text)),
             IF Head(text)[1] = c /\ text[2][1] = " "
             THEN offset + RunLen(Head(text)) - 1 ELSE found)

\* the place (from 0) of the last blank, -1 when there is none
RECURSIVE RFindBlank(_, _, _)
RFindBlank(text, offset, found) ==
    IF text = <<>> THEN found
    ELSE RFindBlank(Tail(text), offset + RunLen(Head(text)),
             IF Head(text)[1] = " " THEN offset + RunLen(Head(text)) - 1
             ELSE found)

\* str.lstrip and str.rstrip for blanks
RECURSIVE LStripText(_)
LStripText(text) ==
    IF text # <<>> /\ Head(text)[1] = " " THEN LStripText(Tail(text))
    ELSE text

RECURSIVE RStripText(_)
RStripText(text) ==
    IF text # <<>> /\ text[Len(text)][1] = " "
    THEN RStripText(SubSeq(text, 1, Len(text) - 1))
    ELSE text

\* str.strip
StripText(text) == LStripText(RStripText(text))

\* line 1137-1140: the loop over the sentence endings
RECURSIVE BestEnd(_, _, _, _)
BestEnd(truncated, max_length, endings, best_end) ==
    IF endings = <<>> THEN best_end
    ELSE LET pos == RFindEnding(truncated, Head(endings), 0, -1)
         IN  BestEnd(truncated, max_length, Tail(endings),
                 IF 10 * pos > 7 * max_length /\ pos + 1 > best_end
                 THEN pos + 1 ELSE best_end)

\* _smart_truncate
_smart_truncate(text, max_length) ==
    IF TextLength(text) <= max_length THEN text
    ELSE LET truncated == TakeChars(text, max_length)
             best_end == BestEnd(truncated, max_length, <<".", "!", "?">>, -1)
             blank == RFindBlank(truncated, 0, -1)
         IN  IF best_end > 0 THEN StripText(TakeChars(text, best_end))
             ELSE IF blank >= 0
             THEN TakeChars(text, blank) \o <<<<".", 3>>>>
             ELSE TakeChars(text, max_length - 3) \o <<<<".", 3>>>>

MaxTextLen == 8

MaxLimit == 7

\* the texts: every string of letters, blanks and full stops
TruncateTexts ==
    UNION {[1..n -> {<<"a", 1>>, <<" ", 1>>, <<".", 1>>}] :
              n \in 0..MaxTextLen}

InitTruncate ==
    /\ fn_in \in [text : TruncateTexts, max_length : 4..MaxLimit]
    /\ fn_out = NotRun

SmartTruncate ==
    /\ fn_out = NotRun
    /\ fn_out' = [text |-> _smart_truncate(fn_in.text, fn_in.max_length)]
    /\ UNCHANGED <<fn_in, besidesFn>>

NextTruncate == SmartTruncate

InitSmartTruncate ==
    /\ InitClaim /\ InitAggIdle /\ InitSession
    /\ InitDivIdle /\ InitCacheIdle /\ InitAgenticIdle /\ InitLimiter
    /\ InitPanelStreamIdle
    /\ InitVerifierIdle
    /\ InitResearcherIdle
    /\ InitHistoryIdle /\ InitSearchIdle /\ InitPoolIdle
    /\ InitReconcileIdle
    /\ InitTruncate

SpecTruncate == InitSmartTruncate /\ [][NextTruncate]_vars

\* C40: for every text and every max_length >= 4, _smart_truncate returns a
\* string of at most max_length characters on each of its three paths, and
\* returns a text that is within the limit unchanged
TruncatedWithinLimit ==
    fn_out # NotRun =>
        /\ TextLength(fn_out.text) <= fn_in.max_length
        /\ TextLength(fn_in.text) <= fn_in.max_length
               => fn_out.text = fn_in.text

----------------------------------------------------------------------------
(* The arguments of a verdict (run_panel.py:126-194): each argument text    *)
(* of the parsed payload is replaced when empty, truncated or padded, and   *)
(* cleaned of its citation markers; ArgumentWithEvidence (models.py:335-360)*)
(* validates the cleaned text and the confidence.                           *)

MinArgument == 20
MaxArgument == 2000
PadBelow == 50

\* words of letters with one blank between them
RECURSIVE WordsText(_)
WordsText(lens) ==
    IF lens = <<>> THEN <<>>
    ELSE IF Len(lens) = 1 THEN <<<<"a", Head(lens)>>>>
    ELSE <<<<"a", Head(lens)>>, <<" ", 1>>>> \o WordsText(Tail(lens))

FullStop == <<<<".", 1>>>>
Blank == <<<<" ", 1>>>>

\* the word "approval" or "refusal"
TypeWord(argument_type) == IF argument_type = "approval" THEN 8 ELSE 7

\* ClaimText, the text of the claim in the prompt, in runs
ClaimRuns == <<<<"a", 5>>, <<" ", 1>>, <<"a", 2>>, <<" ", 2>>, <<"a", 2>>>>

\* _fallback_argument for the adapter "openai:gpt-4o (gpt-4o)" and 2 pieces
\* of evidence
_fallback_argument(argument_type) ==
    WordsText(<<13, 8, 8, TypeWord(argument_type), 8>>) \o FullStop \o Blank
    \o WordsText(<<9, 1, 8, 7, 3, 9,
                   IF argument_type = "approval" THEN 7 ELSE 10, 3>>)
    \o Blank \o ClaimRuns \o FullStop \o Blank
    \o WordsText(<<4, 8, 2, 9, 7, 3, 2, 10, 8, 8>>) \o FullStop

\* _pad_argument
_pad_argument(text, argument_type) ==
    IF TextLength(text) >= PadBelow THEN _smart_truncate(text, MaxArgument)
    ELSE LET filler ==
                 Blank
                 \o WordsText(<<4, TypeWord(argument_type), 8, 8, 8, 2, 9, 8,
                                4, 8, 8, 2, 6, 11, 3, 12>>)
                 \o FullStop
             combined ==
                 (IF text # <<>> THEN text
                  ELSE WordsText(<<2, TypeWord(argument_type), 8, 8>>)
                       \o FullStop)
                 \o filler
         IN  IF TextLength(combined) >= PadBelow
             THEN _smart_truncate(combined, MaxArgument)
             ELSE combined
                  \o <<<<" ", PadBelow - TextLength(combined)>>>>

\* re.sub of a citation marker and the blanks before it by nothing
RECURSIVE RemoveMarkers(_, _)
RemoveMarkers(text, cleaned) ==
    IF text = <<>> THEN cleaned
    ELSE IF Head(text)[1] = "#"
    THEN RemoveMarkers(Tail(text), RStripText(cleaned))
    ELSE RemoveMarkers(Tail(text), Append(cleaned, Head(text)))

\* re.sub(r'\s+', ' ', cleaned)
RECURSIVE CollapseBlanks(_)
CollapseBlanks(text) ==
    IF text = <<>> THEN <<>>
    ELSE IF Head(text)[1] = " "
    THEN Blank \o CollapseBlanks(LStripText(text))
    ELSE <<Head(text)>> \o CollapseBlanks(Tail(text))

\* _clean_argument_text
_clean_argument_text(argument) ==
    StripText(CollapseBlanks(RemoveMarkers(argument, <<>>)))

\* evaluate, lines 137-146 and 161-169: the text of one argument before it
\* is cleaned
SizedArgument(data, argument_type) ==
    LET given == IF "argument" \in DOMAIN data THEN data.argument ELSE <<>>
        arg == IF given # <<>> THEN given
               ELSE _fallback_argument(argument_type)
    IN  IF TextLength(arg) > MaxArgument
        THEN _smart_truncate(arg, MaxArgument)
        ELSE IF TextLength(arg) < PadBelow
        THEN _pad_argument(arg, argument_type)
        ELSE arg

\* evaluate, lines 148 and 171: the confidence of one argument
ParsedConfidence(data) ==
    IF "confidence" \in DOMAIN data THEN _parse_confidence(data.confidence)
    ELSE ConfOne \div 2

\* the argument handed to ArgumentWithEvidence
DisplayArgument(data, argument_type) ==
    [argument   |-> _clean_argument_text(SizedArgument(data, argument_type)),
     confidence |-> ParsedConfidence(data)]

\* the validation of ArgumentWithEvidence
ArgumentValid(value) ==
    /\ TextLength(value.argument) >= MinArgument
    /\ TextLength(value.argument) <= MaxArgument
    /\ value.confidence >= 0
    /\ value.confidence <= ConfOne

\* evaluate, lines 178-194: the verdict, or the validation error of one of
\* its arguments
evaluate_arguments(parsed) ==
    CHOOSE result \in UNION {
        { IF ArgumentValid(approval) /\ ArgumentValid(refusal)
          THEN [raised |-> FALSE, approval_argument |-> approval,
                refusal_argument |-> refusal]
          ELSE [raised |-> TRUE] } :
        approval \in {DisplayArgument(parsed.approval_argument, "approval")},
        refusal \in {DisplayArgument(parsed.refusal_argument, "refusal")}} :
        TRUE

MaxArgumentLen == 2100

\* the argument texts of the payloads: letters, then a blank, a sentence
\* end or citation markers, then letters
ArgumentHeads ==
    {<<>>} \cup {<<<<"a", n>>>> : n \in {3, 45, 60, 1998, MaxArgumentLen}}

ArgumentMiddles ==
    {<<>>, Blank, FullStop \o Blank, <<<<" ", 1>>, <<"#", 1>>>>,
     <<<<" ", 1>>, <<"#", 1>>, <<" ", 1>>, <<"#", 1>>>>}

ArgumentTails == {<<>>, <<<<"a", 10>>>>}

ArgumentTexts ==
    {head \o middle \o tail :
        head \in ArgumentHeads, middle \in ArgumentMiddles,
        tail \in ArgumentTails}

PayloadConfidences == {0 - 20000, 70000, 150000}

ArgumentData ==
    [argument : ArgumentTexts, confidence : PayloadConfidences]
    \cup [argument : ArgumentTexts]
    \cup [confidence : PayloadConfidences]

InitArguments ==
    /\ fn_in \in [approval_argument : ArgumentData,
                  refusal_argument : ArgumentData]
    /\ fn_out = NotRun

EvaluateArguments ==
    /\ fn_out = NotRun
    /\ fn_out' = evaluate_arguments(fn_in)
    /\ UNCHANGED <<fn_in, besidesFn>>

NextArguments == EvaluateArguments

InitVerdictArguments ==
    /\ InitClaim /\ InitAggIdle /\ InitSession
    /\ InitDivIdle /\ InitCacheIdle /\ InitAgenticIdle /\ InitLimiter
    /\ InitPanelStreamIdle
    /\ InitVerifierIdle
    /\ InitResearcherIdle
    /\ InitHistoryIdle /\ InitSearchIdle /\ InitPoolIdle
    /\ InitReconcileIdle
    /\ InitArguments

SpecArguments == InitVerdictArguments /\ [][NextArguments]_vars

DisplayWithinBounds(value) ==
    /\ TextLength(value.argument) >= PadBelow
    /\ TextLength(value.argument) <= MaxArgument
    /\ value.confidence >= 0
    /\ value.confidence <= ConfOne

\* C32: for every parsed payload, evaluate returns a verdict and raises no
\* validation error, and both arguments of the verdict have a display text
\* of 50 to 2000 characters and a confidence in [0, 1]
VerdictArgumentsWithinBounds ==
    fn_out # NotRun =>
        /\ ~fn_out.raised
        /\ DisplayWithinBounds(fn_out.approval_argument)
        /\ DisplayWithinBounds(fn_out.refusal_argument)

----------------------------------------------------------------------------
(* main.py: verify_claim, lines 680-769, as the event loop runs it: the     *)
(* handler is suspended at the await of the gather (line 710, and line 220  *)
(* inside _gather_and_persist_sources) and nowhere else, so that the        *)
(* handlers of other requests on the same claim run in between.             *)

\* What the explorer gives one request: it raises, or it returns built
\* sources.  Two batches share sources; within a batch and across batches
\* sources share a normalized URL (SrcA, SrcA2) or a content hash (SrcA, SrcB).
GatherRaised == [raised |-> TRUE]

GatherBatches == {<<SrcA, SrcB>>, <<SrcB, SrcA2>>, <<SrcA2, SrcA>>}

GatherOutcomes ==
    {GatherRaised}
    \cup {[raised |-> FALSE, sources |-> batch] : batch \in GatherBatches}

\* main.py:217-241: the sources handed to the loop; an error of the gather
\* is logged and leaves the empty list
GatheredSources(outcome, window) ==
    IF outcome.raised THEN <<>> ELSE gather_sources(outcome.sources, window)

\* lines 684-707: what the handler holds when it reaches the gather
verify_before_gather(window, providers, force) ==
    LET selected_providers == SelectedProviders(providers)
        evidence_in_range == filter_evidence_by_time_window(evidence,
                                 window.start, window.end)
        existing_sources_hash == compute_sources_hash(evidence_in_range)
        existing_cache_key == build_cache_key(ClaimText, window,
                                  selected_providers, existing_sources_hash)
    IN  [window                |-> window,
         selected_providers    |-> selected_providers,
         force                 |-> force,
         evidence_in_range     |-> evidence_in_range,
         existing_sources_hash |-> existing_sources_hash,
         existing_cache_key    |-> existing_cache_key,
         cached_record         |-> LookupUnlessForced(force,
                                       existing_cache_key),
         gathers               |-> TRUE]

\* lines 704-707 with the cached record returned where it is found
verify_cached_first(window, providers, force) ==
    LET started == verify_before_gather(window, providers, force)
    IN  [started EXCEPT !.gathers = started.cached_record = NoRecord]

\* lines 684-710: the handler up to the gather
verify_until_gather(window, providers, force) ==
    verify_before_gather(window, providers, force)

\* lines 245-253 moved before the await of the gather: the deduplication
\* sets hold the evidence the claim had when the request arrived
verify_with_early_sets(started, gathered) ==
    LET st == PersistLoop(gathered,
                  [evidence |-> evidence,
                   new      |-> <<>>,
                   urls     |-> {started.evidence_in_range[i].nurl :
                                    i \in DOMAIN started.evidence_in_range}
                                \ {EmptyUrl},
                   hashes   |-> {started.evidence_in_range[i].hash :
                                    i \in DOMAIN started.evidence_in_range}
                                \ {NoHash},
                   nextId   |-> nextId])
        new_record == create_verification_record(nextVid, model_assessments,
                          st.evidence, started.selected_providers,
                          started.window, started.existing_sources_hash)
    IN  [response |-> VerificationResponse(new_record, FALSE),
         evidence |-> st.evidence,
         new      |-> st.new,
         cache    |-> cache,
         nextId   |-> st.nextId,
         nextVid  |-> nextVid + 1]

\* lines 711-769: the handler from the return of the gather on
verify_after_gather(started, gathered) ==
    LET g == _gather_and_persist_sources(evidence, gathered, nextId)
        evidence_in_range ==
            IF g.new # <<>>
            THEN filter_evidence_by_time_window(g.evidence,
                     started.window.start, started.window.end)
            ELSE started.evidence_in_range
        sources_hash ==
            IF g.new # <<>> THEN compute_sources_hash(evidence_in_range)
            ELSE started.existing_sources_hash
        cache_key ==
            IF g.new # <<>>
            THEN build_cache_key(ClaimText, started.window,
                     started.selected_providers, sources_hash)
            ELSE started.existing_cache_key
        new_record == create_verification_record(nextVid, model_assessments,
                          evidence_in_range, started.selected_providers,
                          started.window, sources_hash)
    IN  IF ReturnsCached(g.new, started.cached_record)
        THEN [response |-> VerificationResponse(started.cached_record, TRUE),
              evidence |-> g.evidence,
              new      |-> g.new,
              cache    |-> cache,
              nextId   |-> g.nextId,
              nextVid  |-> nextVid]
        ELSE [response |-> VerificationResponse(new_record, FALSE),
              evidence |-> g.evidence,
              new      |-> g.new,
              cache    |-> store_verification(cache_key, new_record),
              nextId   |-> g.nextId,
              nextVid  |-> nextVid + 1]

\* A request arrives and its handler runs up to the gather
VerifyArrives(c, window, providers, force) ==
    /\ vq_pc[c] = "idle"
    /\ \E started \in {verify_until_gather(window, providers, force)} :
        /\ vq_started' = [vq_started EXCEPT ![c] = started]
        /\ IF started.gathers
           THEN /\ vq_pc' = [vq_pc EXCEPT ![c] = "gathering"]
                /\ UNCHANGED vq_result
           ELSE /\ vq_pc' = [vq_pc EXCEPT ![c] = "done"]
                /\ vq_result' = [vq_result EXCEPT ![c] =
                       [response  |->
                            VerificationResponse(started.cached_record, TRUE),
                        status    |-> 200,
                        gathered  |-> <<>>,
                        before    |-> evidence,
                        after     |-> evidence,
                        new       |-> <<>>]]
    /\ UNCHANGED <<mainVars, besidesVerifier>>

\* The gather of a request returns or raises, and the handler runs to its
\* end
VerifyGathered(c, outcome) ==
    /\ vq_pc[c] = "gathering"
    /\ \E gathered \in {GatheredSources(outcome, vq_started[c].window)} :
       \E out \in {verify_after_gather(vq_started[c], gathered)} :
        /\ out.nextId <= MaxId + 1
        /\ evidence' = out.evidence
        /\ cache' = out.cache
        /\ nextId' = out.nextId
        /\ nextVid' = out.nextVid
        /\ vq_pc' = [vq_pc EXCEPT ![c] = "done"]
        /\ vq_result' = [vq_result EXCEPT ![c] =
               [response  |-> out.response,
                status    |-> 200,
                outcome   |-> outcome,
                gathered  |-> gathered,
                before    |-> evidence,
                after     |-> out.evidence,
                new       |-> out.new]]
    /\ UNCHANGED <<model_assessments, panel_results, nOps, last, fresh,
                   newSince, returned, vq_started, besidesVerifier>>

NextVerifier ==
    \/ \E c \in Verifiers, r \in VerifyRequests, force \in BOOLEAN :
           VerifyArrives(c, r.window, r.providers, force)
    \/ \E c \in Verifiers, outcome \in GatherOutcomes :
           VerifyGathered(c, outcome)

SpecVerifier == Init /\ [][NextVerifier]_vars

\* C33: every verify request that passed validation answers only after its
\* gather was attempted, whether or not a cached record was found for the
\* current evidence and whether or not force is set, and the request
\* succeeds also when the gather raised
AnswersOnlyAfterGather ==
    [][\A c \in Verifiers :
          (vq_pc[c] # "done" /\ vq_pc'[c] = "done")
          => /\ vq_pc[c] = "gathering"
             /\ vq_result'[c].outcome \in GatherOutcomes
             /\ vq_result'[c].status = 200]_vars

\* a request that found a cached record, whose gather raised, and that
\* answered with the cached record
CachedAnswerAfterFailedGather ==
    \E c \in Verifiers :
        /\ vq_pc[c] = "done"
        /\ vq_started[c].cached_record # NoRecord
        /\ vq_result[c].outcome = GatherRaised
        /\ vq_result[c].status = 200
        /\ vq_result[c].response.cached

\* the source matches the Evidence item: the same normalized URL or the same
\* content hash
SourceMatches(source, ev) ==
    \/ /\ source.normalized_url # EmptyUrl
       /\ source.normalized_url = ev.nurl
    \/ /\ source.content_hash # NoHash
       /\ source.content_hash = ev.hash

\* the place in the gathered list of the source that became the i-th new
\* Evidence: the sources keep their order
RECURSIVE PersistedPlaces(_, _, _)
PersistedPlaces(gathered, new, place) ==
    IF new = <<>> \/ gathered = <<>> THEN <<>>
    ELSE IF /\ Head(gathered).url = Head(new).url
            /\ Head(gathered).snippet = Head(new).snippet
         THEN <<place>> \o PersistedPlaces(Tail(gathered), Tail(new),
                                           place + 1)
         ELSE PersistedPlaces(Tail(gathered), new, place + 1)

\* C34: when verify persists the sources of the explorer, a gathered source
\* becomes Evidence of the claim only if neither its normalized URL nor its
\* content hash matches an Evidence that was in the claim or a source that
\* was persisted earlier in the batch, and the list of new evidence returned
\* is exactly what was appended to the claim
PersistsOnlyUnmatchedSources ==
    \A c \in Verifiers :
        vq_pc[c] = "done" =>
            LET result == vq_result[c]
                places == PersistedPlaces(result.gathered, result.new, 1)
            IN  /\ result.after = result.before \o result.new
                /\ Len(places) = Len(result.new)
                /\ \A i \in DOMAIN result.new :
                      /\ \A k \in DOMAIN result.before :
                            ~SourceMatches(result.gathered[places[i]],
                                           result.before[k])
                      /\ \A k \in 1..(i - 1) :
                            ~SourceMatches(result.gathered[places[i]],
                                           result.new[k])

\* a request whose batch held a source matching an Evidence of the claim, a
\* source matching an earlier one of the batch, and a source that was
\* persisted
PersistedBesideMatchedSources ==
    \E c \in Verifiers :
        /\ vq_pc[c] = "done"
        /\ Len(vq_result[c].new) = 1
        /\ Len(vq_result[c].gathered) = 2
        /\ vq_result[c].before # <<>>
        /\ \E c2 \in Verifiers :
              /\ vq_pc[c2] = "done"
              /\ Len(vq_result[c2].new) = 1
              /\ Len(vq_result[c2].gathered) = 2
              /\ vq_result[c2].before = <<>>

\* C39: however the handlers of verify requests on one claim interleave, and
\* whatever sources their gathers share, no two Evidence items of the claim
\* have the same normalized URL or the same content hash
ConcurrentVerifiesKeepEvidenceDistinct ==
    \A i, j \in DOMAIN evidence :
        i < j =>
            /\ ~(evidence[i].nurl # EmptyUrl
                    /\ evidence[i].nurl = evidence[j].nurl)
            /\ ~(evidence[i].hash # NoHash
                    /\ evidence[i].hash = evidence[j].hash)

\* two requests without a time window that both arrived while the claim
\* had no evidence, so that both were waiting for their gathers at the same
\* time, and whose gathers both returned the source SrcA; the claim holds it
\* once
OverlappingGathersPersistedOnce ==
    /\ \A c \in Verifiers :
          /\ vq_pc[c] = "done"
          /\ vq_started[c].window = TimeWindow(NoTime, NoTime)
          /\ vq_started[c].evidence_in_range = <<>>
          /\ \E k \in DOMAIN vq_result[c].gathered :
                vq_result[c].gathered[k] = SrcA
    /\ \E c \in Verifiers : vq_result[c].new = <<>>
    /\ evidence # <<>>

----------------------------------------------------------------------------
(* The verdict of a verify response *)

\* the majority of the verdicts of the assessments, as it is stated
MajorityVerdict(assessments) ==
    LET supports == CountVerdict(assessments, "supports")
        refutes  == CountVerdict(assessments, "refutes")
    IN  IF supports > refutes THEN "supports"
        ELSE IF refutes > supports THEN "refutes"
        ELSE IF supports > 0 THEN "mixed"
        ELSE "uncertain"

\* C36: the verdict of every verify response, cached or not, is the
\* majority verdict of the ModelAssessments the claim has at the call, also
\* when a panel run replaced the assessments since the last verify call and
\* left the evidence as it was
ResponseVerdictIsCurrentMajority ==
    last.op = "verify" => last.verdict = MajorityVerdict(model_assessments)

----------------------------------------------------------------------------
(* The reconciliation at the endpoints that run a panel *)

\* the summary of the last panel result stored for the claim
StoredSummary(results, claim) == results[claim][Len(results[claim])].summary

\* what is stated of a run on the claim that gave the summary, beside a
\* complementary claim of the topic with a panel result, both with support
\* above 0.6
ReconciliationIsStored(claim, summary, other) ==
    LET before == StoredSummary(ph_results, other)
    IN  (/\ detect_complementary_claims(ClaimTextOf(claim), ClaimTextOf(other))
         /\ RatLess(Rat(6, 10), summary.support_confidence)
         /\ RatLess(Rat(6, 10), before.support_confidence))
        => IF RatLeq(before.support_confidence, summary.support_confidence)
           THEN /\ StoredSummary(ph_results', other) = inverted_summary(before)
                /\ StoredSummary(ph_results', claim) = summary
           ELSE /\ StoredSummary(ph_results', claim) =
                       inverted_summary(summary)
                /\ StoredSummary(ph_results', other) = before

\* C35: after an endpoint that runs a panel has applied the reconciliation
\* between the evaluated claim and a complementary claim, both with support
\* above 0.6, the last stored summary of the claim of weaker support is the
\* inverted one, be it the evaluated claim or the other, the last stored
\* summary of the stronger one is unchanged, and no claim beside these two
\* is modified
WeakerStoredSummaryIsInverted ==
    [][\A claim \in TopicClaims, summary \in RunSummaries :
          StorePanelResult(claim, PanelResult("prompt", <<>>, summary))
          => /\ \A other \in TopicClaims \ {claim} :
                   ph_results[other] # <<>>
                   => ReconciliationIsStored(claim, summary, other)
             /\ \A c \in DOMAIN ph_results \ TopicClaims :
                   ph_results'[c] = ph_results[c]]_vars

----------------------------------------------------------------------------
(* main.py: run_agentic_panel_with_progress, lines 828-929, with the panel  *)
(* task run_agentic_panel_evaluation (run_panel.py:497-668) for the models  *)
(* of the request.  The queue is unbounded, so an emit does not suspend the *)
(* task: the task is suspended while the researchers work and while a       *)
(* provider is asked, and generate_progress at its wait for an event and at *)
(* each yield.                                                              *)

MaxResearchEvents == 2

\* an event of the panel task, by what it reports
AgentEvent(action, model) == [action |-> action, model |-> model]

Heartbeat == [type |-> "heartbeat"]
Completion == [type |-> "completion"]

\* emit_agent_update for the session of the request, one call after the
\* other
EmitAll(events) ==
    /\ ap_queue' = ap_queue \o events
    /\ ap_emitted' = ap_emitted \o events

\* run_panel.py:521-561: the task starts and waits for the researchers
PanelTaskStarts ==
    /\ ap_task.pc = "start"
    /\ EmitAll(<<AgentEvent("research_phase", 0)>>)
    /\ ap_task' = [pc |-> "researching", model |-> 0]
    /\ UNCHANGED <<ap_pc, ap_sent, ap_left, besidesPanelStream>>

\* a researcher reports a turn while the task waits at line 561
ResearcherReports ==
    /\ ap_task.pc = "researching"
    /\ ap_task.model < MaxResearchEvents
    /\ EmitAll(<<AgentEvent("research_turn", ap_task.model + 1)>>)
    /\ ap_task' = [ap_task EXCEPT !.model = @ + 1]
    /\ UNCHANGED <<ap_pc, ap_sent, ap_left, besidesPanelStream>>

\* lines 561-625: the researchers are done; the task goes on to the first
\* model and waits for its provider
ResearchReturns ==
    /\ ap_task.pc = "researching"
    /\ EmitAll(<<AgentEvent("research_complete", 0),
                 AgentEvent("verdict_phase", 0),
                 AgentEvent("verdict_analysis", 1)>>)
    /\ ap_task' = [pc |-> "evaluating", model |-> 1]
    /\ UNCHANGED <<ap_pc, ap_sent, ap_left, besidesPanelStream>>

\* lines 625-668: the provider of a model answers or raises; the task goes
\* on to the next model, or aggregates, reports the completion and returns
EvaluateReturns(raised) ==
    /\ ap_task.pc = "evaluating"
    /\ EmitAll((IF raised
                THEN <<AgentEvent("evaluation_failed", ap_task.model)>>
                ELSE <<>>)
               \o (IF ap_task.model < Len(RequestModels)
                   THEN <<AgentEvent("verdict_analysis", ap_task.model + 1)>>
                   ELSE <<AgentEvent("panel_complete", 0)>>))
    /\ ap_task' = IF ap_task.model < Len(RequestModels)
                  THEN [ap_task EXCEPT !.model = @ + 1]
                  ELSE [pc |-> "done", model |-> 0]
    /\ UNCHANGED <<ap_pc, ap_sent, ap_left, besidesPanelStream>>

\* main.py:856-866: the wait for an event ends with an event, which is
\* sent to the client
StreamSendsEvent ==
    /\ ap_pc = "waiting"
    /\ ap_queue # <<>>
    /\ ap_sent' = Append(ap_sent, Head(ap_queue))
    /\ ap_queue' = Tail(ap_queue)
    /\ ap_pc' = "sent"
    /\ UNCHANGED <<ap_task, ap_emitted, ap_left, besidesPanelStream>>

\* lines 868-870: the wait for an event times out and a heartbeat is sent;
\* the model sends at most one heartbeat in a row
StreamSendsHeartbeat ==
    /\ ap_pc = "waiting"
    /\ ap_queue = <<>>
    /\ IF ap_sent = <<>> THEN TRUE ELSE ap_sent[Len(ap_sent)] # Heartbeat
    /\ ap_sent' = Append(ap_sent, Heartbeat)
    /\ ap_pc' = "sent"
    /\ UNCHANGED <<ap_task, ap_queue, ap_emitted, ap_left,
                   besidesPanelStream>>

\* line 856: while not panel_task.done()
ContinuesWhileRunning(task_done) == ~task_done

\* lines 856 and 876-911: after a yield the loop goes on to the next wait
\* while the task is not done; when it is, the result is stored, the
\* completion is sent and the queue of the session is deleted
StreamLoops ==
    /\ ap_pc = "sent"
    /\ IF ContinuesWhileRunning(ap_task.pc = "done")
       THEN /\ ap_pc' = "waiting"
            /\ UNCHANGED <<ap_sent, ap_queue, ap_left>>
       ELSE /\ ap_pc' = "closed"
            /\ ap_sent' = Append(ap_sent, Completion)
            /\ ap_left' = ap_queue
            /\ ap_queue' = <<>>
    /\ UNCHANGED <<ap_task, ap_emitted, besidesPanelStream>>

NextPanelStream ==
    \/ PanelTaskStarts
    \/ ResearcherReports
    \/ ResearchReturns
    \/ \E raised \in BOOLEAN : EvaluateReturns(raised)
    \/ StreamSendsEvent
    \/ StreamSendsHeartbeat
    \/ StreamLoops

SpecPanelStream == Init /\ [][NextPanelStream]_vars

\* the events among what was sent to the client
SentEvents == SelectSeq(ap_sent, LAMBDA data : "action" \in DOMAIN data)

\* C38: every event the panel task emitted for the session is sent to the
\* client, in the order of the emits, before the completion is sent, however
\* the task and generate_progress interleave; no event is in the queue when
\* the stream closes
EveryEventSentBeforeCompletion ==
    ap_pc = "closed" =>
        /\ ap_left = <<>>
        /\ SentEvents = ap_emitted

----------------------------------------------------------------------------
(* The terminal events of a session *)

\* the places of the events with a terminal stage in the queue
TerminalPlaces(queue) == {i \in DOMAIN queue : queue[i] \in TerminalStages}

\* C37: for a session started by create_claim_async, the background task
\* and the cancel endpoint together put exactly one event with a terminal
\* stage (complete, error, cancelled) on the queue of the session, on every
\* path, and no event after it.  While no client reads the stream the queue
\* holds every event that was put: it holds at most one terminal event, as
\* its last entry, and exactly one when the task has ended.
OneTerminalEventAndNothingAfter ==
    (Sid \in DOMAIN progress_streams /\ subscriber = "none") =>
        LET queue == progress_streams[Sid]
        IN  /\ Cardinality(TerminalPlaces(queue)) <= 1
            /\ TerminalPlaces(queue) \subseteq {Len(queue)}
            /\ task = "ended" => TerminalPlaces(queue) # {}

====
